---- MODULE Spec2Model ----
(***************************************************************************)
(* Solvable-board generation for Minesweeper: the board model, the random  *)
(* generator and the mutator, the deduction solver and the time-budgeted   *)
(* search of generateSolvableBoard.                                        *)
(*                                                                         *)
(* A position is a pair <<row, col>>, 0-based as in the source.  A board   *)
(* is a record [rows, cols, cells] whose cells map positions to cell       *)
(* records.  The animation field revealStep is left out: no rule reads it. *)
(* Boards are objects: the variable heap holds every board allocated by    *)
(* createEmptyBoard, and a board reference is its index in heap (0 is      *)
(* null), so that writing through one reference is seen through another.   *)
(***************************************************************************)
EXTENDS Integers, Sequences, FiniteSets, TLC

\* ------------------------------------------------------------------ bounds
\* Board dimensions of the search and of the solver runs.
MaxRows == 3
MaxCols == 3
\* Largest bomb count requested from the search.
MaxBombs == 3
\* Clock readings (ms) the search can see: 0..MaxClock.
MaxClock == 1
\* Cap on loop iterations of one search.
MaxAttempts == 3

\* ------------------------------------------------------------ grid model
Null == 0

DIRECTIONS ==
  << <<-1, -1>>, <<-1, 0>>, <<-1, 1>>, <<0, -1>>, <<0, 1>>, <<1, -1>>, <<1, 0>>, <<1, 1>> >>

inBounds(rows, cols, row, col) == row >= 0 /\ row < rows /\ col >= 0 /\ col < cols

Positions(rows, cols) == (0 .. rows - 1) \X (0 .. cols - 1)

\* Row-major order of the nested for loops over rows and cols.
RowMajor(rows, cols) ==
  [i \in 1 .. rows * cols |-> <<(i - 1) \div cols, (i - 1) % cols>>]

Abs(x) == IF x < 0 THEN 0 - x ELSE x
MaxOf(a, b) == IF a >= b THEN a ELSE b
MinOf(a, b) == IF a <= b THEN a ELSE b

\* The in-bounds neighbours of a position, in DIRECTIONS order.
NeighborSeq(rows, cols, pos) ==
  SelectSeq([i \in 1 .. 8 |-> <<pos[1] + DIRECTIONS[i][1], pos[2] + DIRECTIONS[i][2]>>],
            LAMBDA q : inBounds(rows, cols, q[1], q[2]))

SeqToSet(s) == {s[i] : i \in 1 .. Len(s)}

createEmptyBoard(rows, cols) ==
  [rows |-> rows,
   cols |-> cols,
   cells |-> [p \in Positions(rows, cols) |->
                [row |-> p[1], col |-> p[2], isBomb |-> FALSE, adjacentBombCount |-> 0,
                 revealed |-> FALSE, flagged |-> FALSE]]]

countBombs(board) == Cardinality({p \in DOMAIN board.cells : board.cells[p].isBomb})

\* The neighbour loop stopping one direction short: the cell below right is missed.
AdjacentCountSkipsLast(board, pos) ==
  Len(SelectSeq(NeighborSeq(board.rows, board.cols, pos),
                LAMBDA q : board.cells[q].isBomb /\ q # <<pos[1] + 1, pos[2] + 1>>))

\* The count one non-bomb cell gets from computeAdjacency's inner loop.
AdjacentCount(board, pos) ==
  Len(SelectSeq(NeighborSeq(board.rows, board.cols, pos),
                LAMBDA q : board.cells[q].isBomb))

\* Bomb cells are skipped and keep the count they had.
computeAdjacency(board) ==
  [board EXCEPT !.cells =
     [p \in DOMAIN board.cells |->
        IF board.cells[p].isBomb
        THEN board.cells[p]
        ELSE [board.cells[p] EXCEPT !.adjacentBombCount = AdjacentCount(board, p)]]]

\* A board with the given cells made bombs (isBomb = true), nothing else touched.
SetBombs(board, ps, value) ==
  [board EXCEPT !.cells =
     [p \in DOMAIN board.cells |->
        IF p \in ps THEN [board.cells[p] EXCEPT !.isBomb = value] ELSE board.cells[p]]]

\* ------------------------------------------- candidate generator and mutator
\* All subsets of S with exactly k elements.
RECURSIVE KSubsets(_, _)
KSubsets(S, k) ==
  IF k = 0 THEN {{}}
  ELSE IF Cardinality(S) < k THEN {}
  ELSE LET x == CHOOSE y \in S : TRUE
       IN  {T \cup {x} : T \in KSubsets(S \ {x}, k - 1)} \cup KSubsets(S \ {x}, k)

\* The candidate list without the test that leaves out the safe cell.
RandomCandidatesWithSafe(rows, cols, safe) == RowMajor(rows, cols)

\* The candidate list of generateRandomBoard: every cell except safe.
RandomCandidates(rows, cols, safe) ==
  SelectSeq(RowMajor(rows, cols), LAMBDA p : ~(p[1] = safe[1] /\ p[2] = safe[2]))

\* One bomb too many is placed (i <= bombs).
PlacedCountOffByOne(bombs, available) == MaxOf(0, MinOf(bombs + 1, available))

\* How many of the shuffled candidates become bombs: i < bombs && i < candidates.length.
PlacedCount(bombs, available) == MaxOf(0, MinOf(bombs, available))

\* The shuffle is unbiased, so the first cells of the shuffled list can be any
\* set of that size: these are the possible outcomes of the random draw.
RandomPicks(rows, cols, bombs, safe) ==
  LET cand == RandomCandidates(rows, cols, safe)
  IN  KSubsets(SeqToSet(cand), PlacedCount(bombs, Len(cand)))

\* generateRandomBoard with the outcome of the shuffle given as `picked`.
\* Returns the heap with the new board and the reference to it.
generateRandomBoard(h, rows, cols, bombs, safe, picked) ==
  LET board == computeAdjacency(SetBombs(createEmptyBoard(rows, cols), picked, TRUE))
  IN  [heap |-> Append(h, board), ref |-> Len(h) + 1]

\* The zone test with the column condition dropped.
isInSafeZoneRowOnly(row, col, safe) == Abs(row - safe[1]) <= 1 /\ col = safe[2]

isInSafeZone(row, col, safe) == Abs(row - safe[1]) <= 1 /\ Abs(col - safe[2]) <= 1

\* No copy is made: the "clone" is the parent object itself.
cloneBombLayoutAliased(h, parent) == [heap |-> h, ref |-> parent]

\* A fresh board carrying only the parent's bomb layout.
cloneBombLayout(h, parent) ==
  LET src == h[parent]
      board == SetBombs(createEmptyBoard(src.rows, src.cols),
                        {p \in DOMAIN src.cells : src.cells[p].isBomb}, TRUE)
  IN  [heap |-> Append(h, board), ref |-> Len(h) + 1]

\* list[index] = list[last]; list.pop()   (index is 0-based)
SwapRemove(list, index) ==
  SubSeq([list EXCEPT ![index + 1] = list[Len(list)]], 1, Len(list) - 1)

\* The swap loop of mutateBoard; picks[i] = <<bombIndex, safeIndex>> are the
\* two random indices drawn in iteration i.
RECURSIVE SwapLoop(_, _, _, _)
SwapLoop(board, bombPositions, safePositions, picks) ==
  IF picks = <<>> THEN board
  ELSE LET bombIndex == Head(picks)[1]
           safeIndex == Head(picks)[2]
           bombPos == bombPositions[bombIndex + 1]
           safePos == safePositions[safeIndex + 1]
           swapped == SetBombs(SetBombs(board, {bombPos}, FALSE), {safePos}, TRUE)
       IN  SwapLoop(swapped, SwapRemove(bombPositions, bombIndex),
                    SwapRemove(safePositions, safeIndex), Tail(picks))

\* Cells outside the safe zone, split by isBomb, in row-major order.
EligiblePositions(board, safe, wantBomb) ==
  SelectSeq(RowMajor(board.rows, board.cols),
            LAMBDA p : ~isInSafeZone(p[1], p[2], safe) /\ board.cells[p].isBomb = wantBomb)

\* The possible outcomes of the random index draws of k swaps.
RECURSIVE PickSeqs(_, _, _)
PickSeqs(nb, ns, k) ==
  IF k <= 0 THEN {<<>>}
  ELSE IF nb <= 0 \/ ns <= 0 THEN {}
  ELSE {<< <<b, s>> >> \o rest :
          b \in 0 .. nb - 1, s \in 0 .. ns - 1, rest \in PickSeqs(nb - 1, ns - 1, k - 1)}

\* The draws mutateBoard can make on this parent (one empty draw when it
\* returns null).
MutationPicks(h, parent, safe, swapCount) ==
  LET nb == Len(EligiblePositions(h[parent], safe, TRUE))
      ns == Len(EligiblePositions(h[parent], safe, FALSE))
  IN  IF swapCount <= 0 \/ nb < swapCount \/ ns < swapCount
      THEN {<<>>}
      ELSE PickSeqs(nb, ns, swapCount)

\* The early return testing swapCount < 0: a call for zero swaps returns a copy.
mutateBoardAllowsZero(h, parent, safe, swapCount, picks) ==
  IF swapCount < 0 THEN [heap |-> h, ref |-> Null]
  ELSE LET c == cloneBombLayout(h, parent)
           board == c.heap[c.ref]
           bombPositions == EligiblePositions(board, safe, TRUE)
           safePositions == EligiblePositions(board, safe, FALSE)
       IN  IF Len(bombPositions) < swapCount \/ Len(safePositions) < swapCount
           THEN [heap |-> c.heap, ref |-> Null]
           ELSE [heap |-> [c.heap EXCEPT ![c.ref] =
                             computeAdjacency(SwapLoop(c.heap[c.ref], bombPositions,
                                                       safePositions, picks))],
                 ref |-> c.ref]

\* mutateBoard; ref is Null when it returns null.
mutateBoard(h, parent, safe, swapCount, picks) ==
  IF swapCount <= 0 THEN [heap |-> h, ref |-> Null]
  ELSE LET c == cloneBombLayout(h, parent)
           board == c.heap[c.ref]
           bombPositions == EligiblePositions(board, safe, TRUE)
           safePositions == EligiblePositions(board, safe, FALSE)
       IN  IF Len(bombPositions) < swapCount \/ Len(safePositions) < swapCount
           THEN [heap |-> c.heap, ref |-> Null]
           ELSE [heap |-> [c.heap EXCEPT ![c.ref] =
                             computeAdjacency(SwapLoop(c.heap[c.ref], bombPositions,
                                                       safePositions, picks))],
                 ref |-> c.ref]

\* ------------------------------------------------------ deduction solver
AllFalse(board) == [p \in DOMAIN board.cells |-> FALSE]

\* The flood loop writing cell.revealed on the board as well as the matrix.
RECURSIVE RevealFloodMarksBoard(_, _, _, _, _)
RevealFloodMarksBoard(board, revealed, flagged, queue, revealedCount) ==
  LET pending == SelectSeq(queue, LAMBDA q : /\ ~(revealed[q] \/ flagged[q])
                                             /\ ~board.cells[q].isBomb)
  IN  IF pending = <<>>
      THEN [board |-> board, revealed |-> revealed, added |-> revealedCount]
      ELSE LET current == Head(pending)
               rest == Tail(pending)
               marked == [revealed EXCEPT ![current] = TRUE]
               written == [board EXCEPT !.cells[current].revealed = TRUE]
           IN  IF board.cells[current].adjacentBombCount # 0
               THEN RevealFloodMarksBoard(written, marked, flagged, rest, revealedCount + 1)
               ELSE RevealFloodMarksBoard(written, marked, flagged,
                                rest \o SelectSeq(NeighborSeq(board.rows, board.cols, current),
                                                  LAMBDA q : ~marked[q]),
                                revealedCount + 1)

\* The flood loop of revealAt over its queue.  Returns the board (which the
\* loop only reads), the revealed matrix and the number of cells it marked.
\* The entries the loop shifts and skips (revealed, flagged or bomb) are
\* dropped from the queue together: no mark is ever taken back, so an entry
\* that is skipped now would be skipped when its turn came.  The entries
\* processed and their order are those of the loop.
RECURSIVE RevealFlood(_, _, _, _, _)
RevealFlood(board, revealed, flagged, queue, revealedCount) ==
  LET pending == SelectSeq(queue, LAMBDA q : /\ ~(revealed[q] \/ flagged[q])
                                             /\ ~board.cells[q].isBomb)
  IN  IF pending = <<>>
      THEN [board |-> board, revealed |-> revealed, added |-> revealedCount]
      ELSE LET current == Head(pending)
               rest == Tail(pending)
               marked == [revealed EXCEPT ![current] = TRUE]
           IN  IF board.cells[current].adjacentBombCount # 0
               THEN RevealFlood(board, marked, flagged, rest, revealedCount + 1)
               ELSE RevealFlood(board, marked, flagged,
                                rest \o SelectSeq(NeighborSeq(board.rows, board.cols, current),
                                                  LAMBDA q : ~marked[q]),
                                revealedCount + 1)

revealAt(board, revealed, flagged, row, col) ==
  IF revealed[<<row, col>>] \/ flagged[<<row, col>>]
  THEN [board |-> board, revealed |-> revealed, added |-> 0]
  ELSE IF board.cells[<<row, col>>].isBomb
  THEN [board |-> board, revealed |-> revealed, added |-> 0]
  ELSE RevealFlood(board, revealed, flagged, << <<row, col>> >>, 0)

\* What the scan of one revealed cell finds around it.
FlagsAround(board, flagged, pos) ==
  Len(SelectSeq(NeighborSeq(board.rows, board.cols, pos), LAMBDA q : flagged[q]))

UnknownsAround(board, revealed, flagged, pos) ==
  SelectSeq(NeighborSeq(board.rows, board.cols, pos),
            LAMBDA q : ~flagged[q] /\ ~revealed[q])

\* Line 375: the number already has all its bombs flagged.
IsSaturated(adjacentBombCount, flags) == adjacentBombCount = flags

\* The exhaustion test forgetting the flags already placed.
IsExhaustedIgnoresFlags(adjacentBombCount, flags, unknownCount) ==
  adjacentBombCount = unknownCount

\* Line 378: the number needs every unknown neighbour to be a bomb.
IsExhausted(adjacentBombCount, flags, unknownCount) ==
  adjacentBombCount = flags + unknownCount

\* What the scan does at one cell; acc holds the lists toReveal, toFlag and
\* constraints built so far.
ScanCell(board, revealed, flagged, pos, acc) ==
  LET cell == board.cells[pos]
      flags == FlagsAround(board, flagged, pos)
      unknowns == UnknownsAround(board, revealed, flagged, pos)
      remaining == cell.adjacentBombCount - flags
      withConstraint ==
        IF remaining >= 0
        THEN [acc EXCEPT !.constraints =
                Append(@, [unknowns |-> unknowns, remaining |-> remaining])]
        ELSE acc
      withRules ==
        IF IsSaturated(cell.adjacentBombCount, flags)
        THEN [withConstraint EXCEPT !.toReveal = @ \o unknowns]
        ELSE IF IsExhausted(cell.adjacentBombCount, flags, Len(unknowns))
        THEN [withConstraint EXCEPT !.toFlag = @ \o unknowns]
        ELSE withConstraint
  IN  IF ~revealed[pos] THEN acc
      ELSE IF Len(unknowns) = 0 THEN acc
      ELSE withRules

\* The inner loop over the columns of one row; loop holds the loop's
\* variables, the column reached and the lists built so far.
RECURSIVE ScanRow(_, _, _, _, _)
ScanRow(board, revealed, flagged, row, loop) ==
  IF loop.col >= board.cols THEN loop.acc
  ELSE ScanRow(board, revealed, flagged, row,
               [col |-> loop.col + 1,
                acc |-> ScanCell(board, revealed, flagged, <<row, loop.col>>, loop.acc)])

\* The outer loop over the rows; loop holds the row reached and the lists
\* built so far.
RECURSIVE ScanFrom(_, _, _, _)
ScanFrom(board, revealed, flagged, loop) ==
  IF loop.row >= board.rows THEN loop.acc
  ELSE ScanFrom(board, revealed, flagged,
                [row |-> loop.row + 1,
                 acc |-> ScanRow(board, revealed, flagged, loop.row,
                                 [col |-> 0, acc |-> loop.acc])])

ScanBoard(board, revealed, flagged) ==
  ScanFrom(board, revealed, flagged,
           [row |-> 0, acc |-> [toReveal |-> <<>>, toFlag |-> <<>>, constraints |-> <<>>]])

\* `${pos.row}-${pos.col}`
toKey(pos) == <<pos[1], "-", pos[2]>>

KeySet(positions) == {toKey(positions[i]) : i \in 1 .. Len(positions)}

\* map.set(toKey(pos), pos) for every pos of a list: a Map keeps the order of
\* first insertion and one entry per key.
RECURSIVE MapSetAll(_, _)
MapSetAll(entries, positions) ==
  IF positions = <<>> THEN entries
  ELSE MapSetAll(IF \E k \in 1 .. Len(entries) : toKey(entries[k]) = toKey(Head(positions))
                 THEN entries
                 ELSE Append(entries, Head(positions)),
                 Tail(positions))

\* The pair loop without the inclusion test: a smaller set counts as a subset.
SubsetPairBySizeOnly(a, b, found) ==
  LET aKeys == KeySet(a.unknowns)
      bKeys == KeySet(b.unknowns)
      diff == SelectSeq(b.unknowns, LAMBDA pos : toKey(pos) \notin aKeys)
      remainingDiff == b.remaining - a.remaining
  IN  IF Cardinality(aKeys) = 0 THEN found
      ELSE IF Cardinality(aKeys) >= Cardinality(bKeys) THEN found
      ELSE IF Len(diff) = 0 THEN found
      ELSE IF remainingDiff < 0 THEN found
      ELSE IF remainingDiff = 0
      THEN [found EXCEPT !.safe = MapSetAll(@, diff)]
      ELSE IF remainingDiff = Len(diff)
      THEN [found EXCEPT !.bombs = MapSetAll(@, diff)]
      ELSE found

\* What the body of the pair loop does for constraints a = sets[i], b = sets[j], i # j.
SubsetPair(a, b, found) ==
  LET aKeys == KeySet(a.unknowns)
      bKeys == KeySet(b.unknowns)
      diff == SelectSeq(b.unknowns, LAMBDA pos : toKey(pos) \notin aKeys)
      remainingDiff == b.remaining - a.remaining
  IN  IF Cardinality(aKeys) = 0 THEN found
      ELSE IF Cardinality(aKeys) >= Cardinality(bKeys) THEN found
      ELSE IF ~(aKeys \subseteq bKeys) THEN found
      ELSE IF Len(diff) = 0 THEN found
      ELSE IF remainingDiff < 0 THEN found
      ELSE IF remainingDiff = 0
      THEN [found EXCEPT !.safe = MapSetAll(@, diff)]
      ELSE IF remainingDiff = Len(diff)
      THEN [found EXCEPT !.bombs = MapSetAll(@, diff)]
      ELSE found

\* The inner loop over j for one i; loop holds the index reached and the
\* two maps as they stand.
RECURSIVE SubsetPairsWith(_, _, _)
SubsetPairsWith(constraints, i, loop) ==
  IF loop.j > Len(constraints) THEN loop.found
  ELSE SubsetPairsWith(constraints, i,
                       [j |-> loop.j + 1,
                        found |-> IF i = loop.j THEN loop.found
                                  ELSE SubsetPair(constraints[i], constraints[loop.j],
                                                  loop.found)])

\* The outer loop over i.
RECURSIVE SubsetPairsFrom(_, _)
SubsetPairsFrom(constraints, loop) ==
  IF loop.i > Len(constraints) THEN loop.found
  ELSE SubsetPairsFrom(constraints,
                       [i |-> loop.i + 1,
                        found |-> SubsetPairsWith(constraints, loop.i,
                                                  [j |-> 1, found |-> loop.found])])

applySubsetRule(constraints) ==
  SubsetPairsFrom(constraints, [i |-> 1, found |-> [safe |-> <<>>, bombs |-> <<>>]])

\* The loop over toFlag without the test for cells already flagged or revealed:
\* a cell queued by two numbers is counted twice.
RECURSIVE ApplyFlagsCountsTwice(_, _)
ApplyFlagsCountsTwice(st, toFlag) ==
  IF toFlag = <<>> THEN st
  ELSE ApplyFlagsCountsTwice([st EXCEPT !.flagged[Head(toFlag)] = TRUE,
                                        !.flaggedCount = @ + 1,
                                        !.progress = TRUE],
                             Tail(toFlag))

\* The flags placed without recording progress.
RECURSIVE ApplyFlagsNoProgress(_, _)
ApplyFlagsNoProgress(st, toFlag) ==
  IF toFlag = <<>> THEN st
  ELSE LET pos == Head(toFlag)
       IN  IF st.flagged[pos] \/ st.revealed[pos]
           THEN ApplyFlagsNoProgress(st, Tail(toFlag))
           ELSE ApplyFlagsNoProgress([st EXCEPT !.flagged[pos] = TRUE,
                                                !.flaggedCount = @ + 1],
                                     Tail(toFlag))

\* The loop over toFlag.
RECURSIVE ApplyFlags(_, _)
ApplyFlags(st, toFlag) ==
  IF toFlag = <<>> THEN st
  ELSE LET pos == Head(toFlag)
       IN  IF st.flagged[pos] \/ st.revealed[pos]
           THEN ApplyFlags(st, Tail(toFlag))
           ELSE ApplyFlags([st EXCEPT !.flagged[pos] = TRUE,
                                      !.flaggedCount = @ + 1,
                                      !.progress = TRUE],
                           Tail(toFlag))

\* The loop over toReveal.
RECURSIVE ApplyReveals(_, _)
ApplyReveals(st, toReveal) ==
  IF toReveal = <<>> THEN st
  ELSE LET pos == Head(toReveal)
           r == revealAt(st.board, st.revealed, st.flagged, pos[1], pos[2])
       IN  IF r.added > 0
           THEN ApplyReveals([st EXCEPT !.board = r.board,
                                        !.revealed = r.revealed,
                                        !.revealedCount = @ + r.added,
                                        !.progress = TRUE],
                             Tail(toReveal))
           ELSE ApplyReveals([st EXCEPT !.board = r.board], Tail(toReveal))

\* The subset rule applied whenever two constraints exist, whatever the scan
\* queued: its findings are added to the scan's.
RoundActionsAlwaysSubset(board, revealed, flagged) ==
  LET scan == ScanBoard(board, revealed, flagged)
      subset == applySubsetRule(scan.constraints)
  IN  IF Len(scan.constraints) > 1
      THEN [toReveal |-> scan.toReveal \o subset.safe, toFlag |-> scan.toFlag \o subset.bombs,
            constraints |-> scan.constraints, usedSubset |-> TRUE]
      ELSE [toReveal |-> scan.toReveal, toFlag |-> scan.toFlag,
            constraints |-> scan.constraints, usedSubset |-> FALSE]

\* The lists a round acts on: the scan's, or the subset rule's when the scan
\* queued nothing and recorded more than one constraint.
RoundActions(board, revealed, flagged) ==
  LET scan == ScanBoard(board, revealed, flagged)
      subset == applySubsetRule(scan.constraints)
  IN  IF Len(scan.toReveal) = 0 /\ Len(scan.toFlag) = 0 /\ Len(scan.constraints) > 1
      THEN [toReveal |-> subset.safe, toFlag |-> subset.bombs,
            constraints |-> scan.constraints, usedSubset |-> TRUE]
      ELSE [toReveal |-> scan.toReveal, toFlag |-> scan.toFlag,
            constraints |-> scan.constraints, usedSubset |-> FALSE]

\* The solver's locals after the seed reveal (lines 316-332).
SolverStart(board, safe) ==
  LET r == revealAt(board, AllFalse(board), AllFalse(board), safe[1], safe[2])
  IN  [board |-> r.board,
       revealed |-> r.revealed,
       flagged |-> AllFalse(board),
       revealedCount |-> r.added,
       flaggedCount |-> 0,
       totalSafe |-> board.rows * board.cols - countBombs(board),
       progress |-> TRUE]

\* The round without progress = false at its top: the flag stays set.
SolverRoundKeepsProgress(st) ==
  LET acts == RoundActions(st.board, st.revealed, st.flagged)
  IN  ApplyReveals(ApplyFlags(st, acts.toFlag), acts.toReveal)

\* One pass through the body of while (progress).
SolverRound(st) ==
  LET acts == RoundActions(st.board, st.revealed, st.flagged)
  IN  ApplyReveals(ApplyFlags([st EXCEPT !.progress = FALSE], acts.toFlag), acts.toReveal)

RECURSIVE SolverLoop(_)
SolverLoop(st) == IF st.progress THEN SolverLoop(SolverRound(st)) ELSE st

\* The score counting the revealed cells only.
SolverResultRevealedOnly(st) ==
  [solved |-> st.revealedCount >= st.totalSafe,
   score |-> st.revealedCount,
   board |-> st.board]

\* Lines 414-417.
SolverResult(st) ==
  [solved |-> st.revealedCount >= st.totalSafe,
   score |-> st.revealedCount + st.flaggedCount,
   board |-> st.board]

\* runSolver: the result, and the board as the call leaves it.
runSolver(board, safe) == SolverResult(SolverLoop(SolverStart(board, safe)))

\* ------------------------------------------------------------- the state
VARIABLES
  args,            \* the arguments of the generateSolvableBoard call
  heap,            \* every board allocated so far; a reference is an index
  now,             \* Date.now() - start, in ms
  pc,              \* position of the call: "loop", "select", "done" (or "idle")
  attempts,
  noImproveCount,
  parentBoard,
  bestBoard,
  bestScore,
  lastBoard,
  lastSafeBoard,
  solvedBoard,
  selection,       \* "solved", "best", "safe", "last"; "none" before selection
  returned,        \* the reference generateSolvableBoard returns
  log,             \* one record per loop iteration: what it produced and did
  sv,              \* a runSolver call in progress, round by round
  call,            \* the last direct call of generateRandomBoard / mutateBoard
  game,            \* the GameManager: its fields and its HintManager's set
  ret,             \* the last call made on the GameManager and what it returned
  generatorCalls,  \* generateSolvableBoard calls made by the manager since its last reset or setState
  solverSteps,     \* steps taken by the runSolver call in progress
  app              \* App.svelte: its game reference, its finished flag, its pending timers

searchVars ==
  <<args, now, pc, attempts, noImproveCount, parentBoard, bestBoard, bestScore,
    lastBoard, lastSafeBoard, solvedBoard, selection, returned, log>>

vars == <<searchVars, heap, sv, call, game, ret, generatorCalls, solverSteps, app>>

\* ------------------------------------------------------ search orchestrator
\* The quotient rounded down instead of up.
SwapCountFloor(bombs, mutationSwapPercent) ==
  MaxOf(1, (bombs * MaxOf(0, mutationSwapPercent)) \div 100)

\* Math.max(1, Math.ceil((bombs * Math.max(0, mutationSwapPercent)) / 100))
SwapCount(bombs, mutationSwapPercent) ==
  MaxOf(1, (bombs * MaxOf(0, mutationSwapPercent) + 99) \div 100)

\* a ?? b
Coalesce(a, b) == IF a # Null THEN a ELSE b

\* The patience test one iteration late (> for >=).
ShouldDiscardLate(parent, count, mutationPatience) == parent # Null /\ count > mutationPatience

\* Line 87: the parent has used up its patience.
ShouldDiscard(parent, count, mutationPatience) == parent # Null /\ count >= mutationPatience

\* The zero-adjacency test left out: every candidate goes on to the solver.
IsRejectedNever(board, safe) == FALSE

\* Line 103: the first click would not open a region.
IsRejected(board, safe) == board.cells[safe].adjacentBombCount # 0

\* The loop carrying on after a solved candidate.
BreaksLoopNever(result) == FALSE

\* Line 110: a solved candidate ends the loop.
BreaksLoop(result) == result.solved

\* A candidate replaces the best only once there is a best to replace.
ImprovesOnExistingBest(score, best) == best >= 0 /\ score > best

\* Ties replace the best board too.
ImprovesOnTie(score, best) == score >= best

\* Line 117: the candidate becomes the new best and the new parent.
Improves(score, best) == score > best

\* The candidates one iteration can produce, each as [heap, ref, how]:
\* mutateBoard(parent) ?? generateRandomBoard(...) with a parent, else a random board.
ProduceCandidates(h, parent, a, swapCount) ==
  LET fresh(hh, how) ==
        {[heap |-> g.heap, ref |-> g.ref, how |-> how] :
           g \in {generateRandomBoard(hh, a.rows, a.cols, a.bombs, a.safe, picked) :
                    picked \in RandomPicks(a.rows, a.cols, a.bombs, a.safe)}}
  IN  IF parent # Null
      THEN UNION {LET m == mutateBoard(h, parent, a.safe, swapCount, picks)
                  IN  IF m.ref # Null
                      THEN {[heap |-> m.heap, ref |-> m.ref, how |-> "mutated"]}
                      ELSE fresh(m.heap, "fallback") :
                    picks \in MutationPicks(h, parent, a.safe, swapCount)}
      ELSE fresh(h, "random")

\* The calls the search is run on.  Every one is within the precondition
\* 0 <= bombs < rows * cols, safe in bounds.
Input(rows, cols, bombs, safe, timeBudgetMs, mutationSwapPercent, mutationPatience) ==
  [rows |-> rows, cols |-> cols, bombs |-> bombs, safe |-> safe,
   timeBudgetMs |-> timeBudgetMs, mutationSwapPercent |-> mutationSwapPercent,
   mutationPatience |-> mutationPatience]

SearchInputs ==
  { Input(2, 4, 1, <<0, 0>>, MaxClock, 3, 1),     \* never solved: scores 4 and 6, one swap
    Input(1, 6, 2, <<0, 0>>, MaxClock, 100, 1),   \* scores 3 and 4 or solved, two swaps
    Input(1, 5, 2, <<0, 0>>, MaxClock, 100, 2),   \* too few cells for two swaps
    Input(3, 3, 2, <<0, 0>>, 0, 3, 100),          \* no time at all
    Input(3, 3, 1, <<0, 0>>, MaxClock, 3, 0),     \* rejected or solved; no patience
    Input(2, 4, 1, <<0, 0>>, MaxClock, 3, 0),     \* scores 4 and 6; no patience
    Input(3, 3, 1, <<1, 1>>, MaxClock, 3, 100),   \* the whole board is the safe zone
    Input(3, 3, 0, <<1, 1>>, MaxClock, 3, 100) }  \* no bombs

\* No generateSolvableBoard call is running.
NoArgs == Input(0, 0, 0, <<0, 0>>, 0, 0, 0)

NoSolver == [pc |-> "idle"]
NoCall == [op |-> "none"]
NoGame == [hasStarted |-> FALSE]
NoRet == [op |-> "none"]
NoApp == [game |-> Null]

IdleSearch ==
  /\ now = 0
  /\ attempts = 0
  /\ noImproveCount = 0
  /\ parentBoard = Null
  /\ bestBoard = Null
  /\ bestScore = -1
  /\ lastBoard = Null
  /\ lastSafeBoard = Null
  /\ solvedBoard = Null
  /\ selection = "none"
  /\ returned = Null
  /\ log = <<>>

\* generateSolvableBoard has been called: its locals as lines 65-81 set them.
Init ==
  /\ args \in SearchInputs
  /\ heap = <<>>
  /\ pc = "loop"
  /\ IdleSearch
  /\ sv = NoSolver
  /\ call = NoCall
  /\ game = NoGame
  /\ ret = NoRet
  /\ generatorCalls = 0
  /\ solverSteps = 0
  /\ app = NoApp

\* The clock moves on while the loop runs.
Tick ==
  /\ pc = "loop"
  /\ now < MaxClock
  /\ now' = now + 1
  /\ UNCHANGED <<args, heap, pc, attempts, noImproveCount, parentBoard, bestBoard,
                 bestScore, lastBoard, lastSafeBoard, solvedBoard, selection, returned,
                 log, sv, call, game, ret, generatorCalls, solverSteps, app>>

\* The loop test without the guarantee of a first pass.
LoopConditionBudgetOnly == now < args.timeBudgetMs

\* Line 84: attempts === 0 || Date.now() - start < timeBudgetMs
LoopCondition == attempts = 0 \/ now < args.timeBudgetMs

\* One pass through the body of the while loop (lines 85-125).
Iterate ==
  /\ pc = "loop"
  /\ LoopCondition
  /\ attempts < MaxAttempts
  /\ LET discard == ShouldDiscard(parentBoard, noImproveCount, args.mutationPatience)
         parent == IF discard THEN Null ELSE parentBoard
         count == IF discard THEN 0 ELSE noImproveCount
         swapCount == SwapCount(args.bombs, args.mutationSwapPercent)
     IN  \E cand \in ProduceCandidates(heap, parent, args, swapCount) :
           LET board == cand.heap[cand.ref]
               rejected == IsRejected(board, args.safe)
               result == runSolver(board, args.safe)
               stop == ~rejected /\ BreaksLoop(result)
               improved == ~rejected /\ ~stop /\ Improves(result.score, bestScore)
               entry == [attempt |-> attempts + 1, ref |-> cand.ref, how |-> cand.how,
                         discarded |-> discard,
                         scored |-> ~rejected,
                         solved |-> ~rejected /\ result.solved,
                         score |-> IF rejected THEN -1 ELSE result.score]
           IN  /\ attempts' = attempts + 1
               /\ lastBoard' = cand.ref
               /\ log' = Append(log, entry)
               /\ heap' = IF rejected THEN cand.heap
                          ELSE [cand.heap EXCEPT ![cand.ref] = result.board]
               /\ lastSafeBoard' = IF rejected THEN lastSafeBoard ELSE cand.ref
               /\ solvedBoard' = IF stop THEN cand.ref ELSE solvedBoard
               /\ pc' = IF stop THEN "select" ELSE "loop"
               /\ bestScore' = IF improved THEN result.score ELSE bestScore
               /\ bestBoard' = IF improved THEN cand.ref ELSE bestBoard
               /\ parentBoard' = IF improved THEN cand.ref ELSE parent
               /\ noImproveCount' = IF rejected \/ stop THEN count
                                    ELSE IF improved THEN 0 ELSE count + 1
  /\ UNCHANGED <<args, now, selection, returned, sv, call, game, ret, generatorCalls, solverSteps, app>>

\* The loop condition read false: the budget is used up.
ExitLoop ==
  /\ pc = "loop"
  /\ ~LoopCondition
  /\ pc' = "select"
  /\ UNCHANGED <<args, heap, now, attempts, noImproveCount, parentBoard, bestBoard,
                 bestScore, lastBoard, lastSafeBoard, solvedBoard, selection, returned,
                 log, sv, call, game, ret, generatorCalls, solverSteps, app>>

\* The fallbacks in the wrong order.
SelectedBoardLastFirst(solved, best, lastSafe, last) ==
  Coalesce(last, Coalesce(lastSafe, Coalesce(best, solved)))

\* Line 130: solvedBoard ?? bestBoard ?? lastSafeBoard ?? lastBoard
SelectedBoard(solved, best, lastSafe, last) ==
  Coalesce(solved, Coalesce(best, Coalesce(lastSafe, last)))

\* Lines 131-142.
SelectionName ==
  IF solvedBoard # Null THEN "solved"
  ELSE IF bestBoard # Null THEN "best"
  ELSE IF lastSafeBoard # Null THEN "safe"
  ELSE "last"

\* Selection and return (lines 128-176).
Select ==
  /\ pc = "select"
  /\ selection' = SelectionName
  /\ LET selectedBoard == SelectedBoard(solvedBoard, bestBoard, lastSafeBoard, lastBoard)
     IN  IF selectedBoard # Null
         THEN /\ returned' = selectedBoard
              /\ heap' = heap
         ELSE \E picked \in RandomPicks(args.rows, args.cols, args.bombs, args.safe) :
                LET g == generateRandomBoard(heap, args.rows, args.cols, args.bombs,
                                             args.safe, picked)
                IN  /\ returned' = g.ref
                    /\ heap' = g.heap
  /\ pc' = "done"
  /\ UNCHANGED <<args, now, attempts, noImproveCount, parentBoard, bestBoard, bestScore,
                 lastBoard, lastSafeBoard, solvedBoard, log, sv, call, game, ret, generatorCalls, solverSteps, app>>

Next == Tick \/ Iterate \/ ExitLoop \/ Select

Spec == Init /\ [][Next]_vars

\* A pass through the loop body seen by its guard and its effect on attempts.
\* Iterate is the only step of Next that changes attempts and it can be taken
\* whenever its guard holds, so under Spec these are exactly the Iterate steps.
LoopPass ==
  /\ pc = "loop"
  /\ LoopCondition
  /\ attempts < MaxAttempts
  /\ attempts' = attempts + 1

\* The clock advances, and the call, which is one synchronous computation that
\* never blocks, keeps running until it returns.
LiveSpec ==
  Spec /\ WF_vars(Tick) /\ WF_attempts(LoopPass) /\ WF_vars(ExitLoop) /\ WF_vars(Select)

\* ------------------------------------------------- the solver, round by round
BombLayouts(rows, cols, maxBombs) ==
  UNION {KSubsets(Positions(rows, cols), k) : k \in 0 .. maxBombs}

\* A board with this bomb layout and the adjacency counts computeAdjacency gives it.
BoardOf(rows, cols, layout) ==
  computeAdjacency(SetBombs(createEmptyBoard(rows, cols), layout, TRUE))

\* runSolver(board, safe) is called on a board with correct counts whose safe
\* cell is no bomb.
SolverInit ==
  /\ \E layout \in BombLayouts(MaxRows, MaxCols, MaxBombs) :
       \E safe \in Positions(MaxRows, MaxCols) \ layout :
         /\ heap = <<BoardOf(MaxRows, MaxCols, layout)>>
         /\ sv = [pc |-> "seed", board |-> 1, safe |-> safe,
                  input |-> BoardOf(MaxRows, MaxCols, layout)]
  /\ args = Input(MaxRows, MaxCols, 0, <<0, 0>>, 0, 3, 100)
  /\ pc = "idle"
  /\ IdleSearch
  /\ call = NoCall
  /\ game = NoGame
  /\ ret = NoRet
  /\ generatorCalls = 0
  /\ solverSteps = 0
  /\ app = NoApp

\* Lines 316-332: the matrices, the counters and the seed reveal.
SolverSeed ==
  /\ sv.pc = "seed"
  /\ LET st == SolverStart(heap[sv.board], sv.safe)
     IN  /\ sv' = [pc |-> "rounds", board |-> sv.board, safe |-> sv.safe,
                   input |-> sv.input, st |-> st, rounds |-> 0, subsetRounds |-> 0,
                   acts |-> [toReveal |-> <<>>, toFlag |-> <<>>, constraints |-> <<>>,
                             usedSubset |-> FALSE]]
         /\ heap' = [heap EXCEPT ![sv.board] = st.board]
  /\ solverSteps' = solverSteps + 1
  /\ UNCHANGED <<searchVars, call, game, ret, generatorCalls, app>>

\* Lines 333-412: one deduction round.
SolverStep ==
  /\ sv.pc = "rounds"
  /\ sv.st.progress
  /\ LET st == SolverRound(sv.st)
         acts == RoundActions(sv.st.board, sv.st.revealed, sv.st.flagged)
     IN  /\ sv' = [sv EXCEPT !.st = st, !.rounds = @ + 1, !.acts = acts,
                              !.subsetRounds =
                                IF acts.usedSubset /\ st.progress THEN @ + 1 ELSE @]
         /\ heap' = [heap EXCEPT ![sv.board] = st.board]
  /\ solverSteps' = solverSteps + 1
  /\ UNCHANGED <<searchVars, call, game, ret, generatorCalls, app>>

\* Lines 414-417: the loop has stopped and the result is returned.
SolverReturn ==
  /\ sv.pc = "rounds"
  /\ ~sv.st.progress
  /\ sv' = [pc |-> "done", board |-> sv.board, safe |-> sv.safe, input |-> sv.input,
            st |-> sv.st, rounds |-> sv.rounds, subsetRounds |-> sv.subsetRounds,
            acts |-> sv.acts,
            result |-> [solved |-> SolverResult(sv.st).solved,
                        score |-> SolverResult(sv.st).score]]
  /\ solverSteps' = solverSteps + 1
  /\ UNCHANGED <<searchVars, heap, call, game, ret, generatorCalls, app>>

SolverNext == SolverSeed \/ SolverStep \/ SolverReturn

SolverSpec == SolverInit /\ [][SolverNext]_vars

\* A step of the call seen by its guard and its effect on solverSteps.  The
\* three actions of SolverNext are the only ones that change solverSteps, and
\* one of them can be taken whenever the call has not returned, so under
\* SolverSpec these are exactly the SolverNext steps.
SolverPass ==
  /\ sv.pc \in {"seed", "rounds"}
  /\ solverSteps' = solverSteps + 1

\* runSolver is one synchronous computation: it keeps taking its next step.
SolverLiveSpec == SolverSpec /\ WF_solverSteps(SolverPass)

\* ------------------------------- the solver on the 5x5 boards of the scenario
\* Largest number of bombs on the 5x5 boards.
ScenarioBombs == 2

\* runSolver on a 5x5 board with the centre as safe cell.
ScenarioInit ==
  /\ \E layout \in BombLayouts(5, 5, ScenarioBombs) :
       /\ <<2, 2>> \notin layout
       /\ heap = <<BoardOf(5, 5, layout)>>
       /\ sv = [pc |-> "seed", board |-> 1, safe |-> <<2, 2>>,
                input |-> BoardOf(5, 5, layout)]
  /\ args = Input(5, 5, 0, <<2, 2>>, 0, 3, 100)
  /\ pc = "idle"
  /\ IdleSearch
  /\ call = NoCall
  /\ game = NoGame
  /\ ret = NoRet
  /\ generatorCalls = 0
  /\ solverSteps = 0
  /\ app = NoApp

ScenarioSpec == ScenarioInit /\ [][SolverNext]_vars

\* --------------------------------- direct calls of the generator and mutator
\* Largest swapCount passed to mutateBoard, and the number of boards allocated.
MaxSwaps == 2
MaxBoards == 2

BoardShapes == {<<1, 1>>, <<1, 2>>, <<2, 2>>, <<1, 4>>, <<3, 3>>}

BoardInputs ==
  {Input(shape[1], shape[2], bombs, safe, 0, 3, 100) :
     shape \in BoardShapes, bombs \in 0 .. MaxBombs + 1,
     safe \in Positions(3, 3)} 

BoardInit ==
  /\ args \in {a \in BoardInputs : inBounds(a.rows, a.cols, a.safe[1], a.safe[2])}
  /\ heap = <<>>
  /\ pc = "idle"
  /\ IdleSearch
  /\ sv = NoSolver
  /\ call = NoCall
  /\ game = NoGame
  /\ ret = NoRet
  /\ generatorCalls = 0
  /\ solverSteps = 0
  /\ app = NoApp

\* generateRandomBoard(rows, cols, bombs, safe)
CallGenerateRandom ==
  /\ heap = <<>>
  /\ \E picked \in RandomPicks(args.rows, args.cols, args.bombs, args.safe) :
       LET g == generateRandomBoard(heap, args.rows, args.cols, args.bombs, args.safe, picked)
       IN  /\ heap' = g.heap
           /\ call' = [op |-> "generateRandomBoard", ref |-> g.ref, parent |-> Null,
                       swapCount |-> 0, before |-> heap]
  /\ UNCHANGED <<searchVars, sv, game, ret, generatorCalls, solverSteps, app>>

\* mutateBoard(parent, safe, swapCount) on a board made earlier
CallMutate ==
  /\ call.op \in {"generateRandomBoard", "mutateBoard"}
  /\ call.ref # Null
  /\ Len(heap) < MaxBoards
  /\ \E swapCount \in 0 .. MaxSwaps :
       \E picks \in MutationPicks(heap, call.ref, args.safe, swapCount) :
         LET m == mutateBoard(heap, call.ref, args.safe, swapCount, picks)
         IN  /\ heap' = m.heap
             /\ call' = [op |-> "mutateBoard", ref |-> m.ref, parent |-> call.ref,
                         swapCount |-> swapCount, before |-> heap]
  /\ UNCHANGED <<searchVars, sv, game, ret, generatorCalls, solverSteps, app>>

\* Lines 94-98 with a parent: mutateBoard(parent, safe, swapCount) ??
\* generateRandomBoard(rows, cols, bombs, safe).  The parent is a board made
\* by generateRandomBoard; a child of mutateBoard has a layout and counts that
\* some such board has, so it adds no parent.
CallCandidate ==
  /\ call.op = "generateRandomBoard"
  /\ \E swapCount \in 1 .. MaxSwaps :
       \E cand \in ProduceCandidates(heap, call.ref, args, swapCount) :
         /\ heap' = cand.heap
         /\ call' = [op |-> "candidate", ref |-> cand.ref, parent |-> call.ref,
                     swapCount |-> swapCount, before |-> heap, how |-> cand.how]
  /\ UNCHANGED <<searchVars, sv, game, ret, generatorCalls, solverSteps, app>>

BoardNext == CallGenerateRandom \/ CallMutate \/ CallCandidate

BoardSpec == BoardInit /\ [][BoardNext]_vars

\* ------------------------------------------- the swap count on its own
\* Largest bomb count, and largest percentage in either direction.
MaxSwapBombs == 30
MaxPercent == 101

\* A search is called with any bomb count and any whole mutationSwapPercent,
\* negative ones included, on a board one cell larger than the bomb count.
SwapInit ==
  /\ \E bombs \in 0 .. MaxSwapBombs :
       \E percent \in (0 - MaxPercent) .. MaxPercent :
         args = Input(1, bombs + 1, bombs, <<0, 0>>, 0, percent, 100)
  /\ heap = <<>>
  /\ pc = "idle"
  /\ IdleSearch
  /\ sv = NoSolver
  /\ call = NoCall
  /\ game = NoGame
  /\ ret = NoRet
  /\ generatorCalls = 0
  /\ solverSteps = 0
  /\ app = NoApp

\* Lines 92-93: normalizedPercent and swapCount.
ComputeSwapCount ==
  /\ call = NoCall
  /\ call' = [op |-> "swapCount",
              result |-> SwapCount(args.bombs, args.mutationSwapPercent)]
  /\ UNCHANGED <<searchVars, heap, sv, game, ret, generatorCalls, solverSteps, app>>

SwapNext == ComputeSwapCount

SwapSpec == SwapInit /\ [][SwapNext]_vars

\* ------------------------------------------------- the option defaults
\* Lines 65-67: the values taken by options left out of the call.
DefaultTimeBudgetMs == 250
DefaultMutationSwapPercent == 3
DefaultMutationPatience == 100

\* options.name ?? default, for an options object given as a record of the
\* fields it has.
OptionOr(options, name, default) ==
  IF name \in DOMAIN options THEN options[name] ELSE default

\* The options objects of the calls: mutationSwapPercent left out or a whole
\* percentage, mutationPatience left out or given.
OptionObjects ==
  LET none == [name \in {} |-> 0]
      percents == {none} \cup {[mutationSwapPercent |-> p] : p \in 0 .. MaxPercent}
      patiences == {none} \cup {[mutationPatience |-> 1]}
  IN  {[name \in DOMAIN a \cup DOMAIN b |-> IF name \in DOMAIN a THEN a[name] ELSE b[name]] :
         a \in percents, b \in patiences}

\* generateSolvableBoard is about to be called with any bomb count and any of
\* the options objects, on a board one cell larger than the bomb count.
OptionsInit ==
  /\ \E bombs \in 0 .. MaxSwapBombs :
       \E options \in OptionObjects :
         call = [op |-> "generateSolvableBoard", bombs |-> bombs, options |-> options]
  /\ args = NoArgs
  /\ heap = <<>>
  /\ pc = "idle"
  /\ IdleSearch
  /\ sv = NoSolver
  /\ game = NoGame
  /\ ret = NoRet
  /\ generatorCalls = 0
  /\ solverSteps = 0
  /\ app = NoApp

\* Lines 65-67 and 92-93: the options are resolved against the defaults and
\* the swap count is computed from the resolved percentage.
ResolveOptions ==
  /\ call.op = "generateSolvableBoard"
  /\ args' = Input(1, call.bombs + 1, call.bombs, <<0, 0>>,
                   OptionOr(call.options, "timeBudgetMs", DefaultTimeBudgetMs),
                   OptionOr(call.options, "mutationSwapPercent", DefaultMutationSwapPercent),
                   OptionOr(call.options, "mutationPatience", DefaultMutationPatience))
  /\ call' = [op |-> "swapCount", options |-> call.options,
              result |-> SwapCount(args'.bombs, args'.mutationSwapPercent)]
  /\ UNCHANGED <<heap, now, pc, attempts, noImproveCount, parentBoard, bestBoard, bestScore,
                 lastBoard, lastSafeBoard, solvedBoard, selection, returned, log, sv,
                 game, ret, generatorCalls, solverSteps, app>>

OptionsNext == ResolveOptions

OptionsSpec == OptionsInit /\ [][OptionsNext]_vars

\* ----------------------------------------- the subset rule on its own
\* Largest remaining count of a constraint.
MaxRemaining == 2

\* The cells constraints are about, and how many constraints a call is given.
SubsetCells == << <<0, 0>>, <<0, 1>>, <<1, 0>> >>
SubsetLengths == {2, 3}

\* The constraints runSolver records: the unknown neighbours of a cell, one or
\* more and each once, in the order of the scan, and remaining >= 0.
SubsetConstraints ==
  {[unknowns |-> SelectSeq(SubsetCells, LAMBDA pos : pos \in cells),
    remaining |-> remaining] :
     cells \in (SUBSET SeqToSet(SubsetCells)) \ {{}}, remaining \in 0 .. MaxRemaining}

SubsetInit ==
  /\ \E n \in SubsetLengths :
       \E constraints \in [1 .. n -> SubsetConstraints] :
         call = [op |-> "constraints", constraints |-> constraints]
  /\ args = NoArgs
  /\ heap = <<>>
  /\ pc = "idle"
  /\ IdleSearch
  /\ sv = NoSolver
  /\ game = NoGame
  /\ ret = NoRet
  /\ generatorCalls = 0
  /\ solverSteps = 0
  /\ app = NoApp

\* applySubsetRule(constraints)
CallApplySubsetRule ==
  /\ call.op = "constraints"
  /\ call' = [op |-> "applySubsetRule", constraints |-> call.constraints,
              result |-> applySubsetRule(call.constraints)]
  /\ UNCHANGED <<searchVars, heap, sv, game, ret, generatorCalls, solverSteps, app>>

SubsetNext == CallApplySubsetRule

SubsetSpec == SubsetInit /\ [][SubsetNext]_vars

\* ------------------------------------------------- the hint index (hint.ts)
\* `${row}-${col}`, and its inverse key.split("-").map(Number); rows and
\* columns are never negative, so the split gives exactly the two numbers.
keyFor(row, col) == <<row, "-", col>>
parseKey(key) == <<key[1], key[3]>>

\* The null of Position | null.
NoPosition == <<>>

\* The test of lines 43-47, 73-77, 92-94 and 114-116.
IsHintable(cell) ==
  ~cell.revealed /\ ~cell.flagged /\ (cell.isBomb \/ cell.adjacentBombCount > 0)

\* The keys the neighbour loop adds around one cell.
HintableAround(board, pos) ==
  {keyFor(q[1], q[2]) : q \in {n \in SeqToSet(NeighborSeq(board.rows, board.cols, pos)) :
                                 IsHintable(board.cells[n])}}

rebuild(board) ==
  UNION {HintableAround(board, p) : p \in {q \in DOMAIN board.cells : board.cells[q].revealed}}

\* The loop of updateFromReveal over the revealed list, from its first entry.
RECURSIVE UpdateFromRevealLoop(_, _, _)
UpdateFromRevealLoop(next, board, revealedList) ==
  IF revealedList = <<>> THEN next
  ELSE LET pos == Head(revealedList)
       IN  UpdateFromRevealLoop((next \ {keyFor(pos[1], pos[2])}) \cup HintableAround(board, pos),
                                board, Tail(revealedList))

updateFromReveal(edgeCandidates, board, revealedList) ==
  IF Len(revealedList) = 0 THEN edgeCandidates
  ELSE UpdateFromRevealLoop(edgeCandidates, board, revealedList)

hasRevealedNeighbor(board, row, col) ==
  \E i \in 1 .. 8 :
    LET nRow == row + DIRECTIONS[i][1]
        nCol == col + DIRECTIONS[i][2]
    IN  inBounds(board.rows, board.cols, nRow, nCol) /\ board.cells[<<nRow, nCol>>].revealed

\* The candidate test without the look for a revealed neighbour.
updateForCellAnywhere(edgeCandidates, board, row, col) ==
  IF IsHintable(board.cells[<<row, col>>]) THEN edgeCandidates \cup {keyFor(row, col)}
  ELSE edgeCandidates \ {keyFor(row, col)}

updateForCell(edgeCandidates, board, row, col) ==
  LET isCandidate == IsHintable(board.cells[<<row, col>>]) /\ hasRevealedNeighbor(board, row, col)
  IN  IF isCandidate THEN edgeCandidates \cup {keyFor(row, col)}
      ELSE edgeCandidates \ {keyFor(row, col)}

\* The filter of selectHint without the test for flags.
selectHintKeepsFlagged(edgeCandidates, board) ==
  LET candidates == {key \in edgeCandidates :
                       /\ ~board.cells[parseKey(key)].revealed
                       /\ (board.cells[parseKey(key)].isBomb
                             \/ board.cells[parseKey(key)].adjacentBombCount > 0)}
  IN  IF candidates = {} THEN {NoPosition} ELSE {parseKey(key) : key \in candidates}

\* selectHint: the positions the random choice can return, or null alone.
selectHint(edgeCandidates, board) ==
  LET candidates == {key \in edgeCandidates : IsHintable(board.cells[parseKey(key)])}
  IN  IF candidates = {} THEN {NoPosition} ELSE {parseKey(key) : key \in candidates}

\* ------------------------------------------------ the game manager (game.ts)
\* { ...cell } for every cell of every row.
cloneBoard(board) ==
  [rows |-> board.rows, cols |-> board.cols,
   cells |-> [p \in DOMAIN board.cells |-> board.cells[p]]]

toggleFlagCell(board, row, col) ==
  LET next == cloneBoard(board)
      cell == next.cells[<<row, col>>]
  IN  IF cell.revealed THEN [board |-> next, delta |-> 0]
      ELSE [board |-> [next EXCEPT !.cells[<<row, col>>].flagged = ~cell.flagged],
            delta |-> IF ~cell.flagged THEN 1 ELSE -1]

\* The flood loop going on through numbered cells as through empty ones.
RECURSIVE RevealQueueThroughNumbers(_, _, _)
RevealQueueThroughNumbers(next, queue, revealedList) ==
  IF queue = <<>> THEN [board |-> next, revealed |-> revealedList]
  ELSE LET current == Head(queue)
           cell == next.cells[current]
           marked == [next EXCEPT !.cells[current].revealed = TRUE]
       IN  IF cell.revealed \/ cell.flagged
           THEN RevealQueueThroughNumbers(next, Tail(queue), revealedList)
           ELSE RevealQueueThroughNumbers(marked,
                            Tail(queue) \o
                              SelectSeq(NeighborSeq(next.rows, next.cols, current),
                                        LAMBDA q : /\ ~marked.cells[q].revealed
                                                   /\ ~marked.cells[q].flagged
                                                   /\ ~marked.cells[q].isBomb),
                            Append(revealedList, current))

\* The flood loop taking no notice of flags.
RECURSIVE RevealQueueOverFlags(_, _, _)
RevealQueueOverFlags(next, queue, revealedList) ==
  IF queue = <<>> THEN [board |-> next, revealed |-> revealedList]
  ELSE LET current == Head(queue)
           cell == next.cells[current]
           marked == [next EXCEPT !.cells[current].revealed = TRUE]
       IN  IF cell.revealed
           THEN RevealQueueOverFlags(next, Tail(queue), revealedList)
           ELSE IF cell.adjacentBombCount # 0
           THEN RevealQueueOverFlags(marked, Tail(queue), Append(revealedList, current))
           ELSE RevealQueueOverFlags(marked,
                            Tail(queue) \o
                              SelectSeq(NeighborSeq(next.rows, next.cols, current),
                                        LAMBDA q : /\ ~marked.cells[q].revealed
                                                   /\ ~marked.cells[q].isBomb),
                            Append(revealedList, current))

\* The flood loop of revealCellInternal: the queue is first in, first out.
RECURSIVE RevealQueue(_, _, _)
RevealQueue(next, queue, revealedList) ==
  IF queue = <<>> THEN [board |-> next, revealed |-> revealedList]
  ELSE LET current == Head(queue)
           cell == next.cells[current]
           marked == [next EXCEPT !.cells[current].revealed = TRUE]
       IN  IF cell.revealed \/ cell.flagged
           THEN RevealQueue(next, Tail(queue), revealedList)
           ELSE IF cell.adjacentBombCount # 0
           THEN RevealQueue(marked, Tail(queue), Append(revealedList, current))
           ELSE RevealQueue(marked,
                            Tail(queue) \o
                              SelectSeq(NeighborSeq(next.rows, next.cols, current),
                                        LAMBDA q : /\ ~marked.cells[q].revealed
                                                   /\ ~marked.cells[q].flagged
                                                   /\ ~marked.cells[q].isBomb),
                            Append(revealedList, current))

revealCellInternal(board, row, col) ==
  LET next == cloneBoard(board)
      start == next.cells[<<row, col>>]
      single == [board |-> [next EXCEPT !.cells[<<row, col>>].revealed = TRUE],
                 revealed |-> << <<row, col>> >>]
  IN  IF start.revealed \/ start.flagged THEN [board |-> next, revealed |-> <<>>]
      ELSE IF start.isBomb THEN single
      ELSE IF start.adjacentBombCount > 0 THEN single
      ELSE RevealQueue(next, << <<row, col>> >>, <<>>)

\* A GameManager just constructed: the fields of the manager and of its HintManager.
NewGame(rows, cols, bombCount) ==
  [rows |-> rows, cols |-> cols, bombCount |-> bombCount,
   board |-> createEmptyBoard(rows, cols),
   flagsPlaced |-> 0,
   hasStarted |-> FALSE,
   edgeCandidates |-> {}]

reset(gm) ==
  [gm EXCEPT !.board = createEmptyBoard(gm.rows, gm.cols),
             !.flagsPlaced = 0,
             !.hasStarted = FALSE,
             !.edgeCandidates = {}]

\* toggleFlag without the test against the bomb count.
toggleFlagNoLimit(gm, row, col) ==
  LET cell == gm.board.cells[<<row, col>>]
      result == toggleFlagCell(gm.board, row, col)
  IN  IF cell.revealed
      THEN [game |-> gm, result |-> [delta |-> 0, blocked |-> FALSE]]
      ELSE [game |-> [gm EXCEPT !.board = result.board,
                                !.flagsPlaced = MaxOf(0, gm.flagsPlaced + result.delta),
                                !.edgeCandidates =
                                  updateForCell(gm.edgeCandidates, result.board, row, col)],
            result |-> [delta |-> result.delta, blocked |-> FALSE]]

\* toggleFlag: the manager after the call and the value returned.
toggleFlag(gm, row, col) ==
  LET cell == gm.board.cells[<<row, col>>]
      result == toggleFlagCell(gm.board, row, col)
  IN  IF cell.revealed
      THEN [game |-> gm, result |-> [delta |-> 0, blocked |-> FALSE]]
      ELSE IF ~cell.flagged /\ gm.flagsPlaced >= gm.bombCount
      THEN [game |-> gm, result |-> [delta |-> 0, blocked |-> TRUE]]
      ELSE [game |-> [gm EXCEPT !.board = result.board,
                                !.flagsPlaced = MaxOf(0, gm.flagsPlaced + result.delta),
                                !.edgeCandidates =
                                  updateForCell(gm.edgeCandidates, result.board, row, col)],
            result |-> [delta |-> result.delta, blocked |-> FALSE]]

\* The generated board taken as it comes: flags placed before the first
\* reveal are lost.
applyExistingFlagsSkipped(board, nextBoard) == nextBoard

\* The board handed over by generateSolvableBoard with the flags of the
\* current board copied onto it.
applyExistingFlags(board, nextBoard) ==
  [nextBoard EXCEPT !.cells =
     [p \in DOMAIN nextBoard.cells |->
        IF board.cells[p].flagged THEN [nextBoard.cells[p] EXCEPT !.flagged = TRUE]
        ELSE nextBoard.cells[p]]]

\* reveal without the bomb test: the bomb goes through revealCellInternal.
revealNoBombTest(gm, row, col) ==
  LET cell == gm.board.cells[<<row, col>>]
      result == revealCellInternal(gm.board, row, col)
  IN  IF cell.revealed \/ cell.flagged
      THEN [game |-> gm, result |-> [outcome |-> "ignored", revealed |-> <<>>]]
      ELSE [game |-> [gm EXCEPT !.board = result.board,
                                !.edgeCandidates =
                                  updateFromReveal(gm.edgeCandidates, result.board,
                                                   result.revealed)],
            result |-> [outcome |-> "revealed", revealed |-> result.revealed]]

\* reveal from line 172 on, the first board being in place.
reveal(gm, row, col) ==
  LET cell == gm.board.cells[<<row, col>>]
      result == revealCellInternal(gm.board, row, col)
  IN  IF cell.revealed \/ cell.flagged
      THEN [game |-> gm, result |-> [outcome |-> "ignored", revealed |-> <<>>]]
      ELSE IF cell.isBomb
      THEN [game |-> gm, result |-> [outcome |-> "bomb", revealed |-> <<>>]]
      ELSE [game |-> [gm EXCEPT !.board = result.board,
                                !.edgeCandidates =
                                  updateFromReveal(gm.edgeCandidates, result.board,
                                                   result.revealed)],
            result |-> [outcome |-> "revealed", revealed |-> result.revealed]]

\* applyHint without the bomb branch: a bomb is revealed like a number.
applyHintRevealsBombs(gm, row, col) ==
  LET cell == gm.board.cells[<<row, col>>]
      result == revealCellInternal(gm.board, row, col)
  IN  IF ~gm.hasStarted
      THEN [game |-> gm, result |-> [action |-> "none", revealed |-> <<>>]]
      ELSE IF cell.revealed \/ cell.flagged
      THEN [game |-> gm, result |-> [action |-> "none", revealed |-> <<>>]]
      ELSE [game |-> [gm EXCEPT !.board = result.board,
                                !.edgeCandidates =
                                  updateFromReveal(gm.edgeCandidates, result.board,
                                                   result.revealed)],
            result |-> [action |-> "reveal", revealed |-> result.revealed]]

applyHint(gm, row, col) ==
  LET cell == gm.board.cells[<<row, col>>]
      flag == toggleFlag(gm, row, col)
      result == revealCellInternal(gm.board, row, col)
  IN  IF ~gm.hasStarted
      THEN [game |-> gm, result |-> [action |-> "none", revealed |-> <<>>]]
      ELSE IF cell.revealed \/ cell.flagged
      THEN [game |-> gm, result |-> [action |-> "none", revealed |-> <<>>]]
      ELSE IF cell.isBomb
      THEN [game |-> flag.game,
            result |-> [action |-> IF flag.result.delta # 0 THEN "flag" ELSE "none",
                        revealed |-> <<>>]]
      ELSE [game |-> [gm EXCEPT !.board = result.board,
                                !.edgeCandidates =
                                  updateFromReveal(gm.edgeCandidates, result.board,
                                                   result.revealed)],
            result |-> [action |-> "reveal", revealed |-> result.revealed]]

\* getCompletionStatus: complete when every cell is revealed or flagged,
\* correct when every bomb is flagged and every other cell is revealed and
\* unflagged.
getCompletionStatus(gm) ==
  LET cells == gm.board.cells
  IN  [complete |-> \A p \in DOMAIN cells : cells[p].revealed \/ cells[p].flagged,
       correct |-> \A p \in DOMAIN cells :
                     IF cells[p].isBomb THEN cells[p].flagged
                     ELSE ~cells[p].flagged /\ cells[p].revealed]

\* ------------------------------------- the two flood reveals side by side
\* The boards flooded: <<rows, cols>>, with up to MaxBombs bombs.
FloodShapes == {<<3, 3>>, <<2, 4>>}

\* The solver's revealed matrix holding the marks of a live board.
RevealedMatrix(board) == [p \in DOMAIN board.cells |-> board.cells[p].revealed]

\* A generated board, nothing revealed, nothing flagged.
FloodInit ==
  /\ \E shape \in FloodShapes :
       \E layout \in BombLayouts(shape[1], shape[2], MaxBombs) :
         /\ heap = <<BoardOf(shape[1], shape[2], layout)>>
         /\ args = Input(shape[1], shape[2], Cardinality(layout), <<0, 0>>, 0, 3, 100)
  /\ pc = "idle"
  /\ IdleSearch
  /\ sv = NoSolver
  /\ call = NoCall
  /\ game = NoGame
  /\ ret = NoRet
  /\ generatorCalls = 0
  /\ solverSteps = 0
  /\ app = NoApp

\* revealCellInternal(board, row, col) and revealAt(board, revealed, flagged,
\* row, col) are called for the same non-bomb cell on the same marks; play
\* goes on from the board revealCellInternal returns.
CallFloods ==
  /\ \E start \in {p \in DOMAIN heap[1].cells : ~heap[1].cells[p].isBomb} :
       LET live == revealCellInternal(heap[1], start[1], start[2])
           solver == revealAt(heap[1], RevealedMatrix(heap[1]), AllFalse(heap[1]),
                              start[1], start[2])
       IN  /\ call' = [op |-> "flood", start |-> start, before |-> heap[1],
                       live |-> live,
                       solver |-> [revealed |-> solver.revealed, added |-> solver.added]]
           /\ heap' = <<live.board>>
  /\ UNCHANGED <<searchVars, sv, game, ret, generatorCalls, solverSteps, app>>

FloodNext == CallFloods

FloodSpec == FloodInit /\ [][FloodNext]_vars

\* ---------------------------------------------------- a game being played
\* The games played: <<rows, cols, bombCount>>.
GameConfigs == {<<2, 3, 1>>, <<2, 2, 2>>, <<2, 2, 0>>}

\* new GameManager(rows, cols, bombCount)
GameInit ==
  /\ game \in {NewGame(c[1], c[2], c[3]) : c \in GameConfigs}
  /\ ret = NoRet
  /\ generatorCalls = 0
  /\ solverSteps = 0
  /\ app = NoApp
  /\ args = NoArgs
  /\ heap = <<>>
  /\ pc = "idle"
  /\ IdleSearch
  /\ sv = NoSolver
  /\ call = NoCall

Reset ==
  /\ pc = "idle"
  /\ game' = reset(game)
  /\ ret' = [op |-> "reset", before |-> game]
  /\ generatorCalls' = 0
  /\ UNCHANGED <<searchVars, heap, sv, call, solverSteps, app>>

ToggleFlag ==
  /\ pc = "idle"
  /\ \E pos \in DOMAIN game.board.cells :
       LET r == toggleFlag(game, pos[1], pos[2])
       IN  /\ game' = r.game
           /\ ret' = [op |-> "toggleFlag", row |-> pos[1], col |-> pos[2],
                      result |-> r.result, before |-> game]
  /\ UNCHANGED <<searchVars, heap, sv, call, generatorCalls, solverSteps, app>>

\* The guard of line 167 always taken: every reveal generates a board.
NeedsFirstBoardAlways(gm) == TRUE

\* Line 167: no board has been generated since construction or the last reset.
NeedsFirstBoard(gm) == ~gm.hasStarted

\* reveal before the game has started, up to the call of generateSolvableBoard
\* with the clicked cell as safe and the default options.  The clock is
\* counted in units that make the default budget MaxClock.
RevealFirstOn(clicks) ==
  /\ pc = "idle"
  /\ NeedsFirstBoard(game)
  /\ \E pos \in clicks :
       /\ args' = Input(game.rows, game.cols, game.bombCount, pos, MaxClock,
                        DefaultMutationSwapPercent, DefaultMutationPatience)
       /\ ret' = [op |-> "reveal", row |-> pos[1], col |-> pos[2], first |-> TRUE,
                  pending |-> TRUE, before |-> game]
  /\ pc' = "loop"
  /\ generatorCalls' = generatorCalls + 1
  /\ UNCHANGED <<heap, now, attempts, noImproveCount, parentBoard, bestBoard, bestScore,
                 lastBoard, lastSafeBoard, solvedBoard, selection, returned, log, sv, call,
                 game, solverSteps, app>>

\* The same, whatever cell is clicked.
RevealFirst == RevealFirstOn(DOMAIN game.board.cells)

\* generateSolvableBoard has returned: the rest of generateFirstBoard and of
\* reveal.  The locals of the finished call and its candidates are dropped.
RevealFinishGame ==
  /\ pc = "done"
  /\ ret.op = "reveal"
  /\ ret.pending
  /\ LET generated == applyExistingFlags(game.board, heap[returned])
         started == [game EXCEPT !.board = generated, !.hasStarted = TRUE]
         r == reveal(started, ret.row, ret.col)
     IN  /\ game' = r.game
         /\ ret' = [op |-> "reveal", row |-> ret.row, col |-> ret.col, first |-> TRUE,
                    pending |-> FALSE, result |-> r.result, before |-> game,
                    generated |-> generated]
  /\ pc' = "idle"
  /\ args' = NoArgs
  /\ heap' = <<>>
  /\ now' = 0
  /\ attempts' = 0
  /\ noImproveCount' = 0
  /\ parentBoard' = Null
  /\ bestBoard' = Null
  /\ bestScore' = -1
  /\ lastBoard' = Null
  /\ lastSafeBoard' = Null
  /\ solvedBoard' = Null
  /\ selection' = "none"
  /\ returned' = Null
  /\ log' = <<>>
  /\ UNCHANGED <<sv, call, generatorCalls, solverSteps>>

\* The same in a game played through the manager alone.
RevealFinish == RevealFinishGame /\ UNCHANGED app

\* reveal once the game has started.
Reveal ==
  /\ pc = "idle"
  /\ ~NeedsFirstBoard(game)
  /\ \E pos \in DOMAIN game.board.cells :
       LET r == reveal(game, pos[1], pos[2])
       IN  /\ game' = r.game
           /\ ret' = [op |-> "reveal", row |-> pos[1], col |-> pos[2], first |-> FALSE,
                      pending |-> FALSE, result |-> r.result, before |-> game]
  /\ UNCHANGED <<searchVars, heap, sv, call, generatorCalls, solverSteps, app>>

GetHintCandidate ==
  /\ pc = "idle"
  /\ \E choice \in selectHint(game.edgeCandidates, game.board) :
       ret' = [op |-> "getHintCandidate", result |-> choice, before |-> game]
  /\ UNCHANGED <<searchVars, heap, sv, call, game, generatorCalls, solverSteps, app>>

ApplyHint ==
  /\ pc = "idle"
  /\ \E pos \in DOMAIN game.board.cells :
       LET r == applyHint(game, pos[1], pos[2])
       IN  /\ game' = r.game
           /\ ret' = [op |-> "applyHint", row |-> pos[1], col |-> pos[2],
                      result |-> r.result, before |-> game]
  /\ UNCHANGED <<searchVars, heap, sv, call, generatorCalls, solverSteps, app>>

GameNext ==
  \/ Reset \/ ToggleFlag \/ RevealFirst \/ RevealFinish \/ Reveal
  \/ GetHintCandidate \/ ApplyHint
  \/ Tick \/ Iterate \/ ExitLoop \/ Select

GameSpec == GameInit /\ [][GameNext]_vars

\* ------------------------------------------------ a saved game loaded back
\* Most bombs, most revealed cells and most flags of a state given to setState.
MaxSavedMarks == 1

\* The managers setState is called on: <<rows, cols, bombCount>>.
RestoreConfigs == {<<2, 2, 1>>}

\* getState: the snapshot kept for persistence.
getState(gm) ==
  [board |-> gm.board, flagsPlaced |-> gm.flagsPlaced, hasStarted |-> gm.hasStarted,
   boardRows |-> gm.rows, boardCols |-> gm.cols, bombCount |-> gm.bombCount]

\* setState: the board, the flag count and the started flag are taken from
\* the state as they come, nothing is tested, and the index is rebuilt from
\* the board.  rows, cols and bombCount stay those of the constructor.
setState(gm, state) ==
  [gm EXCEPT !.board = state.board,
             !.flagsPlaced = state.flagsPlaced,
             !.hasStarted = state.hasStarted,
             !.edgeCandidates = rebuild(state.board)]

\* The board with exactly these cells revealed and these flagged.
MarkBoard(board, revealedCells, flaggedCells) ==
  [board EXCEPT !.cells = [p \in DOMAIN board.cells |->
                             [board.cells[p] EXCEPT !.revealed = p \in revealedCells,
                                                    !.flagged = p \in flaggedCells]]]

\* The states setState is given: the snapshot of a manager just constructed,
\* and any started board of the manager's size with correct counts, with any
\* cells marked and its flags counted.  Nothing ties them to a game that was
\* played, as nothing in setState does.
SavedStates(rows, cols) ==
  {getState(NewGame(rows, cols, 0))} \cup
  {[board |-> MarkBoard(BoardOf(rows, cols, layout), revealedCells, flaggedCells),
    flagsPlaced |-> Cardinality(flaggedCells), hasStarted |-> TRUE,
    boardRows |-> rows, boardCols |-> cols, bombCount |-> Cardinality(layout)] :
     layout \in BombLayouts(rows, cols, MaxSavedMarks),
     revealedCells \in BombLayouts(rows, cols, MaxSavedMarks),
     flaggedCells \in BombLayouts(rows, cols, MaxSavedMarks)}

RestoreInit ==
  /\ game \in {NewGame(c[1], c[2], c[3]) : c \in RestoreConfigs}
  /\ ret = NoRet
  /\ generatorCalls = 0
  /\ solverSteps = 0
  /\ app = NoApp
  /\ args = NoArgs
  /\ heap = <<>>
  /\ pc = "idle"
  /\ IdleSearch
  /\ sv = NoSolver
  /\ call = NoCall

SetState ==
  /\ pc = "idle"
  /\ \E state \in SavedStates(game.rows, game.cols) :
       game' = setState(game, state)
  /\ ret' = [op |-> "setState"]
  /\ generatorCalls' = 0
  /\ UNCHANGED <<searchVars, heap, sv, call, solverSteps, app>>

\* The manager with every public operation that changes it.
RestoreNext == GameNext \/ SetState

RestoreSpec == RestoreInit /\ [][RestoreNext]_vars

\* ------------------------------------------- the App around the manager
\* Largest number of managers created and of hints requested in one run.
MaxGames == 2
MaxHints == 1

\* difficulty.ts: the defaults of minCellPx, maxCellPx, minRows and maxRows.
DefaultMinCellPx == 28
DefaultMaxCellPx == 56
DefaultMinRows == 8
DefaultMaxRows == 40

\* cellPct in thousandths, bombPct in hundredths.
DIFFICULTY_SETTINGS ==
  [easy |-> [cellPct |-> 75, bombPct |-> 15],
   medium |-> [cellPct |-> 60, bombPct |-> 20],
   hard |-> [cellPct |-> 50, bombPct |-> 28]]

clamp(value, min, max) == MinOf(max, MaxOf(min, value))

\* The largest k with 2^k <= value, for value >= 1: the exponent of the
\* double that holds value.
ExponentOf(value) == CHOOSE k \in 0 .. 29 : 2^k <= value /\ value < 2^(k + 1)

\* Numbers are doubles. 0.075 and 0.06 are stored just below the decimals and
\* no quotient boardSize / cellPx of integer sizes falls below the exact
\* one. 0.05 is stored as 0.05 * (1 + 2^-54): minSide * 0.05, rounded to 53
\* bits, can exceed minSide / 20 by up to half a unit in the last place, and
\* a quotient that is an integer q in exact arithmetic then rounds to the
\* double below q, which Math.floor takes to q - 1. The product is counted
\* in fifths of its last place (2^-47 from 32 px on, 2^-48 below), the
\* distance from q to the double below it is 2^(ExponentOf(q) - 52), half of
\* that when q is a power of two.
RoundsBelow(boardSize, minSide) ==
  LET q == (boardSize * 20) \div minSide
      wide == minSide >= 32 * 20
      r == IF wide THEN (2 * minSide) % 5 ELSE (4 * minSide) % 5
      num == IF wide THEN 512 * r + minSide ELSE 256 * r + minSide
      den == IF wide THEN 2560 ELSE 1280
      down == num \div den
      rem == num % den
      lastPlace == IF \/ 2 * rem > den
                      \/ 2 * rem = den /\ (r + down) % 2 = 1
                   THEN down + 1 ELSE down
      excess == 5 * lastPlace - r
      e == ExponentOf(q)
      scale == (IF wide THEN 256 ELSE 128) * (IF 2^e = q THEN 2 ELSE 1)
  IN  /\ (boardSize * 20) % minSide = 0
      /\ q >= 1
      /\ scale * excess * q > minSide * 2^e

\* Math.floor(boardSize / cellPx), the cell size in thousandths of a pixel.
FloorOfQuotient(boardSize, minSide, cellPct, cellPx) ==
  LET exact == (boardSize * 1000) \div cellPx
  IN  IF /\ cellPct = DIFFICULTY_SETTINGS.hard.cellPct
         /\ DefaultMinCellPx * 1000 < cellPx
         /\ cellPx < DefaultMaxCellPx * 1000
         /\ RoundsBelow(boardSize, minSide)
      THEN exact - 1
      ELSE exact

\* computeBoardConfig with the default limits; the cell size is kept in
\* thousandths of a pixel and Math.round is the quotient of the value plus
\* one half.
computeBoardConfig(difficulty, viewportWidth, viewportHeight, navHeight) ==
  LET settings == DIFFICULTY_SETTINGS[difficulty]
      boardWidth == MaxOf(0, viewportWidth)
      boardHeight == MaxOf(0, viewportHeight - navHeight)
      minSide == MinOf(boardWidth, boardHeight)
      targetCellPx == minSide * settings.cellPct
      cellPx == clamp(targetCellPx, DefaultMinCellPx * 1000, DefaultMaxCellPx * 1000)
      cols == clamp(FloorOfQuotient(boardWidth, minSide, settings.cellPct, cellPx),
                    DefaultMinRows, DefaultMaxRows)
      rows == clamp(FloorOfQuotient(boardHeight, minSide, settings.cellPct, cellPx),
                    DefaultMinRows, DefaultMaxRows)
  IN  [rows |-> rows, cols |-> cols,
       bombs |-> (rows * cols * settings.bombPct + 50) \div 100]

\* The windows the App runs in, <<innerWidth, innerHeight, navbar height>>,
\* and the difficulties chosen.
Viewports == {<<200, 200, 0>>}
Difficulties == {"easy"}

\* The board configurations startGameForDifficulty computes.
AppConfigs ==
  {computeBoardConfig(level, v[1], v[2], v[3]) : level \in Difficulties, v \in Viewports}

\* The cells the player clicks: for the first reveal, for later reveals and
\* for flags.
FirstClickCells == {<<0, 0>>}
RevealCells == {<<0, 0>>, <<2, 2>>}
FlagCells == {<<0, 1>>, <<2, 1>>}

\* The games an earlier visit has left in localStorage: a game of the App
\* before and after its first reveal.
SavedGames(configs) ==
  {getState(NewGame(c.rows, c.cols, c.bombs)) : c \in configs} \cup
  UNION {{getState(reveal([NewGame(c.rows, c.cols, c.bombs) EXCEPT
                             !.board = BoardOf(c.rows, c.cols, picked),
                             !.hasStarted = TRUE],
                          pos[1], pos[2]).game) :
            picked \in RandomPicks(c.rows, c.cols, c.bombs, pos)} :
           c \in configs, pos \in FirstClickCells}

\* startGameFromSaved: a new manager of the saved size takes the saved state.
startGameFromSaved(saved) ==
  setState(NewGame(saved.boardRows, saved.boardCols, saved.bombCount), saved)

\* checkForCompletion as syncFromGame calls it: the new value of hasFinished.
checkForCompletion(hasFinished, gm) ==
  IF hasFinished \/ gm = NoGame THEN hasFinished
  ELSE getCompletionStatus(gm).complete

\* The App has mounted: with nothing saved there is no game yet and the
\* difficulty selection is open; with a saved game startGameFromSaved has run.
\* game holds the manager the App's game variable refers to (NoGame for
\* null), app.game its identity; a manager the App has let go of but a pending
\* callback still holds is kept in app.detached.  ret is the last call a
\* handler made on a manager and what it returned.
AppInit ==
  /\ \/ /\ game = NoGame
        /\ app = [game |-> Null, created |-> 0, hasFinished |-> FALSE,
                  showRestartConfirm |-> FALSE, hints |-> 0, timers |-> <<>>,
                  detached |-> <<>>]
     \/ \E saved \in SavedGames(AppConfigs) :
          /\ game = startGameFromSaved(saved)
          /\ app = [game |-> 1, created |-> 1,
                    hasFinished |-> checkForCompletion(FALSE, startGameFromSaved(saved)),
                    showRestartConfirm |-> FALSE, hints |-> 0, timers |-> <<>>,
                    detached |-> <<>>]
  /\ ret = NoRet
  /\ generatorCalls = 0
  /\ solverSteps = 0
  /\ args = NoArgs
  /\ heap = <<>>
  /\ pc = "idle"
  /\ IdleSearch
  /\ sv = NoSolver
  /\ call = NoCall

\* The managers other than the current one that are still held by a pending
\* callback, with their states.
Held(timers, current, managers) ==
  LET ids == {timers[i].target : i \in DOMAIN timers} \ {current}
  IN  [id \in ids |-> managers[id]]

\* handleDifficultySelect and startGameForDifficulty: a new manager.
StartGame ==
  /\ pc = "idle"
  /\ app.game = Null
  /\ app.created < MaxGames
  /\ \E c \in AppConfigs :
       /\ game' = NewGame(c.rows, c.cols, c.bombs)
       /\ app' = [app EXCEPT !.game = app.created + 1,
                             !.created = app.created + 1,
                             !.hasFinished = checkForCompletion(FALSE, game')]
  /\ ret' = NoRet
  /\ UNCHANGED <<searchVars, heap, sv, call, generatorCalls, solverSteps>>

\* handleRestartRequest: the confirmation dialog opens if a game has started.
HandleRestartRequest ==
  /\ pc = "idle"
  /\ app.game # Null
  /\ game.hasStarted
  /\ app' = [app EXCEPT !.showRestartConfirm = TRUE]
  /\ UNCHANGED <<searchVars, heap, sv, call, game, ret, generatorCalls, solverSteps>>

\* cancelRestart, the other button of the dialog.
CancelRestart ==
  /\ pc = "idle"
  /\ app.showRestartConfirm
  /\ app' = [app EXCEPT !.showRestartConfirm = FALSE]
  /\ UNCHANGED <<searchVars, heap, sv, call, game, ret, generatorCalls, solverSteps>>

\* confirmRestart and resetGame, from the dialog, in a later turn than the
\* request and testing nothing: the App lets go of its manager and opens the
\* difficulty selection.
ConfirmRestart ==
  /\ pc = "idle"
  /\ app.showRestartConfirm
  /\ game' = NoGame
  /\ app' = [app EXCEPT !.game = Null,
                        !.hasFinished = FALSE,
                        !.showRestartConfirm = FALSE,
                        !.detached = Held(app.timers, Null,
                                          [id \in 1 .. app.created |->
                                             IF id = app.game THEN game
                                             ELSE IF id \in DOMAIN app.detached
                                             THEN app.detached[id] ELSE NoGame])]
  /\ ret' = NoRet
  /\ generatorCalls' = 0
  /\ UNCHANGED <<searchVars, heap, sv, call, solverSteps>>

\* handleReveal before the game has started, up to the board search.
HandleRevealFirst ==
  /\ app.game # Null
  /\ ~app.hasFinished
  /\ RevealFirstOn(FirstClickCells)

\* The rest of that handleReveal.
HandleRevealFinish ==
  /\ RevealFinishGame
  /\ app' = [app EXCEPT !.hasFinished =
                          IF ret'.result.outcome = "revealed"
                          THEN checkForCompletion(@, game') ELSE @]

\* handleReveal once the game has started.
HandleReveal ==
  /\ pc = "idle"
  /\ app.game # Null
  /\ ~app.hasFinished
  /\ ~NeedsFirstBoard(game)
  /\ \E pos \in RevealCells :
       LET r == reveal(game, pos[1], pos[2])
       IN  /\ game' = r.game
           /\ ret' = [op |-> "reveal", row |-> pos[1], col |-> pos[2], first |-> FALSE,
                      pending |-> FALSE, result |-> r.result]
           /\ app' = [app EXCEPT !.hasFinished =
                                   IF r.result.outcome = "revealed"
                                   THEN checkForCompletion(@, r.game) ELSE @]
  /\ UNCHANGED <<searchVars, heap, sv, call, generatorCalls, solverSteps>>

\* handleToggleFlag: nothing before the first reveal, and a flag on a cell
\* that is no bomb is refused with a penalty.
HandleToggleFlag ==
  /\ pc = "idle"
  /\ app.game # Null
  /\ ~app.hasFinished
  /\ game.hasStarted
  /\ \E pos \in FlagCells :
       LET cell == game.board.cells[pos]
           r == toggleFlag(game, pos[1], pos[2])
       IN  IF ~cell.flagged /\ ~cell.isBomb
           THEN UNCHANGED <<game, ret, app>>
           ELSE /\ game' = r.game
                /\ ret' = [op |-> "toggleFlag", row |-> pos[1], col |-> pos[2],
                           result |-> r.result]
                /\ app' = [app EXCEPT !.hasFinished =
                                        IF r.result.blocked THEN @
                                        ELSE checkForCompletion(@, r.game)]
  /\ UNCHANGED <<searchVars, heap, sv, call, generatorCalls, solverSteps>>

\* handleHint: a candidate is picked and a callback is set to apply it in one
\* second, holding the manager that is current now.
HandleHint ==
  /\ pc = "idle"
  /\ app.game # Null
  /\ ~app.hasFinished
  /\ game.hasStarted
  /\ app.hints < MaxHints
  /\ \E choice \in selectHint(game.edgeCandidates, game.board) :
       /\ ret' = [op |-> "getHintCandidate", result |-> choice]
       /\ app' = IF choice = NoPosition THEN app
                 ELSE [app EXCEPT !.hints = @ + 1,
                                  !.timers = Append(@, [target |-> app.game,
                                                        row |-> choice[1],
                                                        col |-> choice[2]])]
  /\ UNCHANGED <<searchVars, heap, sv, call, game, generatorCalls, solverSteps>>

\* The callback applying the hint to whatever manager is current when it runs.
HintTargetCurrent(timer, current) == current

\* The manager a hint callback applies to: activeGame, read when the hint was
\* requested.
HintTarget(timer, current) == timer.target

\* The oldest pending hint callback runs: applyHint on the manager it holds,
\* then syncFromGame, which reads the current manager, if the hint acted.
HintTimeout ==
  /\ pc = "idle"
  /\ app.timers # <<>>
  /\ LET timer == Head(app.timers)
         target == HintTarget(timer, app.game)
         rest == Tail(app.timers)
     IN  /\ target # Null
         /\ IF target = app.game
            THEN LET r == applyHint(game, timer.row, timer.col)
                 IN  /\ game' = r.game
                     /\ ret' = [op |-> "applyHint", row |-> timer.row, col |-> timer.col,
                                result |-> r.result, before |-> game, held |-> FALSE]
                     /\ app' = [app EXCEPT !.timers = rest,
                                           !.detached = Held(rest, app.game, app.detached),
                                           !.hasFinished =
                                             IF r.result.action # "none"
                                             THEN checkForCompletion(@, r.game) ELSE @]
            ELSE LET r == applyHint(app.detached[target], timer.row, timer.col)
                 IN  /\ game' = game
                     /\ ret' = [op |-> "applyHint", row |-> timer.row, col |-> timer.col,
                                result |-> r.result, before |-> app.detached[target],
                                held |-> TRUE]
                     /\ app' = [app EXCEPT !.timers = rest,
                                           !.detached =
                                             Held(rest, app.game,
                                                  [app.detached EXCEPT ![target] = r.game]),
                                           !.hasFinished =
                                             IF r.result.action # "none"
                                             THEN checkForCompletion(@, game) ELSE @]
  /\ UNCHANGED <<searchVars, heap, sv, call, generatorCalls, solverSteps>>

AppNext ==
  \/ StartGame \/ HandleRestartRequest \/ CancelRestart \/ ConfirmRestart
  \/ HandleRevealFirst \/ HandleRevealFinish
  \/ HandleReveal \/ HandleToggleFlag \/ HandleHint \/ HintTimeout
  \/ Tick \/ Iterate \/ ExitLoop \/ Select

AppSpec == AppInit /\ [][AppNext]_vars

\* ------------------------------------------- selectHint called on its own
\* The boards selectHint is given: <<rows, cols>>.
HintShapes == {<<1, 3>>, <<2, 2>>}

\* Every way of marking cells revealed and flagged.
MarkedBoards(board) ==
  {[board EXCEPT !.cells = [p \in DOMAIN board.cells |->
                              [board.cells[p] EXCEPT !.revealed = p \in rs,
                                                     !.flagged = p \in fs]]] :
     rs \in SUBSET DOMAIN board.cells, fs \in SUBSET DOMAIN board.cells}

\* A HintManager holding any set of keys is asked for a hint on any board with
\* correct counts: the set may name cells revealed or flagged since insertion.
HintInit ==
  /\ \E shape \in HintShapes :
       \E layout \in BombLayouts(shape[1], shape[2], 1) :
         \E marked \in MarkedBoards(BoardOf(shape[1], shape[2], layout)) :
           \E keys \in SUBSET {keyFor(p[1], p[2]) : p \in Positions(shape[1], shape[2])} :
             game = [NewGame(shape[1], shape[2], 1) EXCEPT
                       !.board = marked, !.hasStarted = TRUE, !.edgeCandidates = keys]
  /\ ret = NoRet
  /\ generatorCalls = 0
  /\ solverSteps = 0
  /\ app = NoApp
  /\ args = NoArgs
  /\ heap = <<>>
  /\ pc = "idle"
  /\ IdleSearch
  /\ sv = NoSolver
  /\ call = NoCall

HintNext == ret = NoRet /\ GetHintCandidate

HintSpec == HintInit /\ [][HintNext]_vars

\* ================================================================ claims
\* ---- helpers of the statements below
Refs == 1 .. Len(heap)
SolvedEntries == {i \in 1 .. Len(log) : log[i].solved}
ScoredEntries == {i \in 1 .. Len(log) : log[i].scored}
ZeroAnchorEntries ==
  {i \in 1 .. Len(log) : heap[log[i].ref].cells[args.safe].adjacentBombCount = 0}
MaxIndex(S) == CHOOSE i \in S : \A j \in S : j <= i
MinIndex(S) == CHOOSE i \in S : \A j \in S : i <= j
BestEntries == {i \in ScoredEntries : \A j \in ScoredEntries : log[j].score <= log[i].score}
BombsOf(board) == {p \in DOMAIN board.cells : board.cells[p].isBomb}
Zone3x3(board, safe) ==
  {p \in DOMAIN board.cells : p[1] - safe[1] \in -1 .. 1 /\ p[2] - safe[2] \in -1 .. 1}

\* C1 (solver soundness): while runSolver runs on a board with correct counts
\* whose safe cell is no bomb, and when it returns, no bomb cell is marked
\* revealed and no non-bomb cell is marked flagged.  The marks only grow within
\* a round, so the state after each round bounds every point inside it.
C1_SolverSound ==
  sv.pc \in {"rounds", "done"} =>
    \A p \in DOMAIN sv.input.cells :
      /\ sv.st.revealed[p] => ~sv.input.cells[p].isBomb
      /\ sv.st.flagged[p] => sv.input.cells[p].isBomb

\* A run that has returned after the seed flood, rounds of the basic rules
\* and a round in which the subset rule made the progress, with cells flagged.
C1_Witness ==
  /\ sv.pc = "done"
  /\ sv.subsetRounds > 0
  /\ sv.rounds > sv.subsetRounds + 1
  /\ sv.st.flaggedCount > 0
  /\ sv.st.revealedCount > 1

\* C2 (anchor cell): in the board generateSolvableBoard returns, the safe cell
\* has adjacentBombCount 0.
C2_AnchorZero ==
  pc = "done" => heap[returned].cells[args.safe].adjacentBombCount = 0

\* C3 (bomb count): every board made by generateRandomBoard or mutateBoard has
\* exactly min(bombCount, rows * cols - 1) bomb cells.
C3_BombCount ==
  \A r \in Refs : countBombs(heap[r]) = MinOf(args.bombs, args.rows * args.cols - 1)

\* A mutated child of a random board with several bombs.
C3_Witness ==
  /\ call.op = "mutateBoard"
  /\ call.ref # Null
  /\ args.bombs >= 2
  /\ BombsOf(heap[call.ref]) # BombsOf(heap[call.parent])

\* C4 (termination): a call always comes to return a board, after at least one
\* pass through the loop body (also with timeBudgetMs = 0); once a candidate is
\* solved or the elapsed time has reached the budget no further pass is made.
C4_Terminates ==
  /\ <>(pc = "done" /\ returned \in Refs /\ attempts >= 1)
  /\ [][(attempts >= 1 /\ (solvedBoard # Null \/ now >= args.timeBudgetMs))
          => attempts' = attempts]_vars

\* A call with no time budget that returned the board of its single pass.
C4_Witness ==
  /\ pc = "done"
  /\ args.timeBudgetMs = 0
  /\ attempts = 1
  /\ returned = 1

\* C5 (selection priority): the board returned is the solved candidate if the
\* solver solved one; else a scored candidate of the highest score if any was
\* scored; else the last candidate whose safe cell has count 0; else the last
\* candidate generated.
C5_SelectionPriority ==
  pc = "done" =>
    IF SolvedEntries # {} THEN \E i \in SolvedEntries : returned = log[i].ref
    ELSE IF ScoredEntries # {} THEN \E i \in BestEntries : returned = log[i].ref
    ELSE IF ZeroAnchorEntries # {} THEN returned = log[MaxIndex(ZeroAnchorEntries)].ref
    ELSE returned = log[Len(log)].ref

\* A solved candidate found after an unsolved one was scored, and returned.
C5_Witness ==
  /\ pc = "done"
  /\ SolvedEntries # {}
  /\ bestBoard # Null
  /\ returned # bestBoard
  /\ returned = solvedBoard

\* C6 (stop on solved): once the solver has reported a candidate solved, no
\* further candidate is generated or scored, and that candidate is returned.
C6_StopsWhenSolved ==
  [][/\ SolvedEntries # {} => (attempts' = attempts /\ log' = log /\ heap' = heap)
     /\ (SolvedEntries # {} /\ pc' = "done")
          => returned' = log[MinIndex(SolvedEntries)].ref]_vars

\* A call that returned a solved candidate with budget and attempts to spare.
C6_Witness ==
  /\ pc = "done"
  /\ SolvedEntries # {}
  /\ returned = log[Len(log)].ref
  /\ now < args.timeBudgetMs
  /\ attempts < MaxAttempts

\* C7 (best candidate): when no candidate is solved and at least one was
\* scored, the board returned is the first scored candidate whose score is the
\* highest of all scored candidates.
C7_ReturnsFirstBest ==
  (pc = "done" /\ SolvedEntries = {} /\ ScoredEntries # {}) =>
    returned = log[MinIndex(BestEntries)].ref

\* Two unsolved candidates tied at the highest score: the earlier is returned.
C7_Witness ==
  /\ pc = "done"
  /\ SolvedEntries = {}
  /\ Cardinality(BestEntries) >= 2
  /\ Cardinality(ScoredEntries) > Cardinality(BestEntries)
  /\ returned = log[MinIndex(BestEntries)].ref

\* C8 (mutation frame): a board returned by mutateBoard has the parent's bomb
\* count and the parent's isBomb values on the 3x3 zone around safe; exactly
\* swapCount bombs were cleared and swapCount non-bombs set, all outside it.
C8_MutationFrame ==
  (call.op = "mutateBoard" /\ call.ref # Null) =>
    LET parent == call.before[call.parent]
        child == heap[call.ref]
        cleared == BombsOf(parent) \ BombsOf(child)
        set == BombsOf(child) \ BombsOf(parent)
    IN  /\ countBombs(child) = countBombs(parent)
        /\ \A p \in Zone3x3(parent, args.safe) : child.cells[p].isBomb = parent.cells[p].isBomb
        /\ Cardinality(cleared) = call.swapCount
        /\ Cardinality(set) = call.swapCount
        /\ (cleared \cup set) \cap Zone3x3(parent, args.safe) = {}

\* Two swaps on a parent that has a bomb inside the zone.
C8_Witness ==
  /\ call.op = "mutateBoard"
  /\ call.ref # Null
  /\ call.swapCount = 2
  /\ BombsOf(heap[call.parent]) \cap Zone3x3(heap[call.parent], args.safe) # {}

\* C9 (no aliasing): a mutateBoard call, whether it returns a child or null,
\* leaves the parent and every other existing board as it was, and a child is
\* a new board, not one that existed before the call.
C9_ParentUntouched ==
  call.op = "mutateBoard" =>
    /\ \A r \in 1 .. Len(call.before) : heap[r] = call.before[r]
    /\ call.ref # Null => call.ref \notin 1 .. Len(call.before)

\* A child whose layout differs from its parent's.
C9_Witness ==
  /\ call.op = "mutateBoard"
  /\ call.ref # Null
  /\ BombsOf(heap[call.ref]) # BombsOf(heap[call.parent])
  /\ heap[call.parent] = call.before[call.parent]

\* C10 (solver frame): runSolver leaves the board it is given unchanged, in
\* every field of every cell, at every round and when it returns.
C10_BoardUnchanged ==
  sv.pc # "idle" => heap[sv.board] = sv.input

\* A finished run that revealed and flagged cells in its own matrices.
C10_Witness ==
  /\ sv.pc = "done"
  /\ sv.st.revealedCount > 1
  /\ sv.st.flaggedCount > 0
  /\ heap[sv.board] = sv.input

\* ---- helpers of C11
BombNeighbours(board, p) ==
  {q \in BombsOf(board) : q # p /\ q[1] - p[1] \in -1 .. 1 /\ q[2] - p[2] \in -1 .. 1}
CountsExact(board) ==
  \A p \in DOMAIN board.cells :
    ~board.cells[p].isBomb =>
      board.cells[p].adjacentBombCount = Cardinality(BombNeighbours(board, p))

\* C11 (adjacency counts): in every candidate of the search, random or mutated,
\* and in the board returned, each non-bomb cell's adjacentBombCount is the
\* number of bombs among its in-bounds neighbours.
C11_CountsExact ==
  /\ \A i \in 1 .. Len(log) : CountsExact(heap[log[i].ref])
  /\ pc = "done" => CountsExact(heap[returned])

\* A mutated candidate was returned in which a corner cell and an inner cell
\* both count bombs.
C11_Witness ==
  /\ pc = "done"
  /\ \E i \in 1 .. Len(log) : log[i].how = "mutated" /\ log[i].ref = returned
  /\ \E p \in DOMAIN heap[returned].cells :
       /\ ~heap[returned].cells[p].isBomb
       /\ heap[returned].cells[p].adjacentBombCount >= 1
       /\ Cardinality({q \in DOMAIN heap[returned].cells :
                         q # p /\ q[1] - p[1] \in -1 .. 1 /\ q[2] - p[2] \in -1 .. 1}) < 8

\* ---- helpers of C14 and C15
RevealedSet == {p \in DOMAIN sv.input.cells : sv.st.revealed[p]}
FlaggedSet == {p \in DOMAIN sv.input.cells : sv.st.flagged[p]}
OneBombOutsideCentre ==
  /\ Cardinality(BombsOf(sv.input)) = 1
  /\ BombsOf(sv.input) \cap Zone3x3(sv.input, <<2, 2>>) = {}

\* C14 (solver result): when runSolver returns, solved is true exactly if every
\* non-bomb cell is marked revealed, and score is the number of revealed cells
\* plus the number of flagged cells, no cell being both.
C14_ResultMeaning ==
  sv.pc = "done" =>
    /\ sv.result.solved <=> (DOMAIN sv.input.cells) \ BombsOf(sv.input) \subseteq RevealedSet
    /\ sv.result.score = Cardinality(RevealedSet) + Cardinality(FlaggedSet)
    /\ RevealedSet \cap FlaggedSet = {}

\* A run that returned solved with several cells flagged and several revealed.
C14_Witness ==
  /\ sv.pc = "done"
  /\ sv.result.solved
  /\ Cardinality(FlaggedSet) >= 2
  /\ Cardinality(RevealedSet) >= 2
  /\ sv.rounds >= 2

\* C15 as stated (5x5 scenario): one bomb outside the 3x3 block around the
\* centre, safe cell the centre: solved is true and score is 24.
C15_Score24 ==
  (sv.pc = "done" /\ OneBombOutsideCentre) =>
    (sv.result.solved /\ sv.result.score = 24)

\* C15 amended: in that scenario solved is true and score is 25: the 24
\* non-bomb cells revealed and the bomb flagged by the exhaustion rule.
C15_Score25 ==
  (sv.pc = "done" /\ OneBombOutsideCentre) =>
    /\ sv.result.solved
    /\ sv.result.score = 25
    /\ Cardinality(RevealedSet) = 24
    /\ FlaggedSet = BombsOf(sv.input)

\* The scenario run has returned, for a bomb in a corner.
C15_Witness ==
  /\ sv.pc = "done"
  /\ OneBombOutsideCentre
  /\ BombsOf(sv.input) = {<<0, 0>>}
  /\ sv.result.solved

\* ---- helpers of C16
OutsideZone(board, safe, wantBomb) ==
  {p \in DOMAIN board.cells : board.cells[p].isBomb = wantBomb} \ Zone3x3(board, safe)
TooFewToSwap(board, safe, swapCount) ==
  \/ swapCount <= 0
  \/ Cardinality(OutsideZone(board, safe, TRUE)) < swapCount
  \/ Cardinality(OutsideZone(board, safe, FALSE)) < swapCount

\* C16 (mutation infeasible): mutateBoard returns null, and leaves every
\* existing board as it was, when swapCount <= 0 or fewer than swapCount bombs
\* or non-bombs lie outside the safe zone; the candidate expression of the
\* search then yields a new random board: the requested bombs, none on the
\* safe cell, counts computed.
C16_NullThenFresh ==
  /\ (call.op = "mutateBoard"
        /\ TooFewToSwap(call.before[call.parent], args.safe, call.swapCount)) =>
       /\ call.ref = Null
       /\ \A r \in 1 .. Len(call.before) : heap[r] = call.before[r]
  /\ (call.op = "candidate"
        /\ TooFewToSwap(call.before[call.parent], args.safe, call.swapCount)) =>
       /\ call.how = "fallback"
       /\ call.ref \in Refs \ (1 .. Len(call.before))
       /\ \A r \in 1 .. Len(call.before) : heap[r] = call.before[r]
       /\ Cardinality(BombsOf(heap[call.ref])) = MinOf(args.bombs, args.rows * args.cols - 1)
       /\ args.safe \notin BombsOf(heap[call.ref])
       /\ CountsExact(heap[call.ref])

\* The parent has a bomb outside the zone but not the two a mutation of two
\* swaps needs: the candidate is a random board with a different layout.
C16_Witness ==
  /\ call.op = "candidate"
  /\ call.how = "fallback"
  /\ call.swapCount = 2
  /\ Cardinality(OutsideZone(heap[call.parent], args.safe, TRUE)) = 1
  /\ BombsOf(heap[call.ref]) # BombsOf(heap[call.parent])

\* ---- helpers of C12 and C17 to C20
FirstRevealDone == ret.op = "reveal" /\ ret.first /\ ~ret.pending
CellBefore == ret.before.board.cells[<<ret.row, ret.col>>]
Chebyshev1(p, q) == p # q /\ p[1] - q[1] \in -1 .. 1 /\ p[2] - q[2] \in -1 .. 1
EdgeCells(board) ==
  {p \in DOMAIN board.cells :
     /\ ~board.cells[p].revealed
     /\ ~board.cells[p].flagged
     /\ (board.cells[p].isBomb \/ board.cells[p].adjacentBombCount > 0)
     /\ \E q \in DOMAIN board.cells : Chebyshev1(p, q) /\ board.cells[q].revealed}

\* C12 (safe cell): the safe cell is no bomb in any candidate of the search
\* nor in the board returned, and the reveal that triggers the generation
\* does not return outcome "bomb".
C12_SafeNeverBomb ==
  /\ \A i \in 1 .. Len(log) : ~heap[log[i].ref].cells[args.safe].isBomb
  /\ pc = "done" => ~heap[returned].cells[args.safe].isBomb
  /\ FirstRevealDone =>
       /\ ret.result.outcome # "bomb"
       /\ ~game.board.cells[<<ret.row, ret.col>>].isBomb

\* A first reveal has opened the clicked cell on the generated board.
C12_Witness ==
  /\ FirstRevealDone
  /\ ret.result.outcome = "revealed"
  /\ game.board.cells[<<ret.row, ret.col>>].revealed
  /\ Cardinality(BombsOf(game.board)) = game.bombCount

\* C17 (hint index): after any sequence of reset, toggleFlag, reveal and
\* applyHint the edge-candidate set holds exactly the keys of the cells that
\* are unrevealed, unflagged, non-empty and next to a revealed cell, which is
\* what rebuild computes from the board.
C17_IndexExact ==
  /\ {parseKey(key) : key \in game.edgeCandidates} = EdgeCells(game.board)
  /\ game.edgeCandidates = {keyFor(p[1], p[2]) : p \in EdgeCells(game.board)}
  /\ game.edgeCandidates = rebuild(game.board)

\* In a started game a flag has just been taken off an edge cell: the cell
\* is back in the set, next to another candidate.
C17_Witness ==
  /\ ret.op = "toggleFlag"
  /\ ret.result.delta = -1
  /\ game.hasStarted
  /\ keyFor(ret.row, ret.col) \in game.edgeCandidates
  /\ Cardinality(game.edgeCandidates) >= 2

\* C18 (hint selection): selectHint returns no cell that is revealed, flagged
\* or empty on the board it is given, only cells of its set, and returns null
\* exactly if no cell of its set is unrevealed, unflagged and non-empty.
C18_HintEligible ==
  ret.op = "getHintCandidate" =>
    LET board == ret.before.board
        eligible == {p \in DOMAIN board.cells :
                       /\ keyFor(p[1], p[2]) \in ret.before.edgeCandidates
                       /\ ~board.cells[p].revealed
                       /\ ~board.cells[p].flagged
                       /\ (board.cells[p].isBomb \/ board.cells[p].adjacentBombCount > 0)}
    IN  /\ ret.result # NoPosition => ret.result \in eligible
        /\ ret.result = NoPosition <=> eligible = {}

\* A hint was picked from a set that also names a flagged cell and a revealed one.
C18_Witness ==
  /\ ret.op = "getHintCandidate"
  /\ ret.result # NoPosition
  /\ \E key \in game.edgeCandidates : game.board.cells[parseKey(key)].flagged
  /\ \E key \in game.edgeCandidates : game.board.cells[parseKey(key)].revealed

\* C19 (bomb reveal): reveal on an unrevealed, unflagged bomb returns outcome
\* "bomb" with an empty list and leaves the board, flagsPlaced and the hint
\* set as they were.
C19_BombRevealNoChange ==
  (ret.op = "reveal" /\ ~ret.pending
     /\ ~CellBefore.revealed /\ ~CellBefore.flagged /\ CellBefore.isBomb) =>
    /\ ret.result = [outcome |-> "bomb", revealed |-> <<>>]
    /\ game.board = ret.before.board
    /\ game.flagsPlaced = ret.before.flagsPlaced
    /\ game.edgeCandidates = ret.before.edgeCandidates

\* A bomb that is a hint candidate was clicked while a flag is placed elsewhere.
C19_Witness ==
  /\ ret.op = "reveal"
  /\ ~ret.pending
  /\ ret.result.outcome = "bomb"
  /\ keyFor(ret.row, ret.col) \in game.edgeCandidates
  /\ game.flagsPlaced >= 1

\* C20 as stated (flag limit): flagsPlaced <= bombCount in every state; a
\* toggleFlag on an unflagged cell while flagsPlaced >= bombCount returns
\* {delta: 0, blocked: true} and changes nothing; taking a flag off is never
\* blocked.
C20_FlagLimit ==
  /\ game.flagsPlaced <= game.bombCount
  /\ (ret.op = "toggleFlag" /\ ~CellBefore.flagged
        /\ ret.before.flagsPlaced >= ret.before.bombCount) =>
       /\ ret.result = [delta |-> 0, blocked |-> TRUE]
       /\ game = ret.before
  /\ (ret.op = "toggleFlag" /\ CellBefore.flagged) =>
       /\ ret.result = [delta |-> -1, blocked |-> FALSE]
       /\ ~game.board.cells[<<ret.row, ret.col>>].flagged

\* C20 amended: the same, for an unflagged cell that is not revealed; on a
\* revealed cell toggleFlag returns {delta: 0, blocked: false} whatever the
\* number of flags, and changes nothing.
C20_FlagLimitUnrevealed ==
  /\ game.flagsPlaced <= game.bombCount
  /\ (ret.op = "toggleFlag" /\ ~CellBefore.flagged /\ ~CellBefore.revealed
        /\ ret.before.flagsPlaced >= ret.before.bombCount) =>
       /\ ret.result = [delta |-> 0, blocked |-> TRUE]
       /\ game = ret.before
  /\ (ret.op = "toggleFlag" /\ CellBefore.revealed) =>
       /\ ret.result = [delta |-> 0, blocked |-> FALSE]
       /\ game = ret.before
  /\ (ret.op = "toggleFlag" /\ CellBefore.flagged) =>
       /\ ret.result = [delta |-> -1, blocked |-> FALSE]
       /\ ~game.board.cells[<<ret.row, ret.col>>].flagged
       /\ game.flagsPlaced = ret.before.flagsPlaced - 1

\* A toggleFlag was blocked in a started game with every flag placed.
C20_Witness ==
  /\ ret.op = "toggleFlag"
  /\ ret.result.blocked
  /\ game.hasStarted
  /\ game.flagsPlaced = game.bombCount
  /\ game.bombCount >= 1

\* ---- helpers of C21
Layout(board) ==
  [p \in DOMAIN board.cells |->
     <<board.cells[p].isBomb, board.cells[p].adjacentBombCount>>]

\* C21 (one generation per game): between two resets the manager calls
\* generateSolvableBoard at most once; the call is made by the first reveal,
\* with the clicked cell as safe; and once hasStarted is true no reveal,
\* toggleFlag or applyHint changes the isBomb or adjacentBombCount of a cell.
C21_GeneratesOnce ==
  /\ [](generatorCalls <= 1)
  /\ [][generatorCalls' > generatorCalls =>
          /\ ~game.hasStarted
          /\ generatorCalls = 0
          /\ ret'.op = "reveal"
          /\ args'.safe = <<ret'.row, ret'.col>>
          /\ <<args'.rows, args'.cols, args'.bombs>> = <<game.rows, game.cols, game.bombCount>>]_vars
  /\ [][(game.hasStarted /\ ret'.op \in {"reveal", "toggleFlag", "applyHint"}) =>
          Layout(game'.board) = Layout(game.board)]_vars

\* In a game started by one generation, a reveal, a flag and an applied hint
\* have changed cells of a board with bombs.
C21_Witness ==
  /\ generatorCalls = 1
  /\ game.hasStarted
  /\ ret.op = "applyHint"
  /\ ret.result.action = "reveal"
  /\ ret.before.hasStarted
  /\ game.flagsPlaced >= 1
  /\ Cardinality({p \in DOMAIN game.board.cells : game.board.cells[p].revealed}) >= 2
  /\ BombsOf(game.board) # {}

\* ---- helpers of C22 and C23
LastEntry == log'[Len(log')]
PassMade == attempts' = attempts + 1

\* C22 (patience): a pass through the loop that starts with a parent and a
\* non-improvement counter of at least mutationPatience discards the parent
\* and counts from 0 again (so the counter is 0 or 1 after the pass), and its
\* candidate is a fresh random board: the only board allocated, not a copy of
\* the parent, with the requested bombs, none on the safe cell.
C22_PatienceDiscards ==
  [][(PassMade /\ parentBoard # Null /\ noImproveCount >= args.mutationPatience) =>
       /\ LastEntry.discarded
       /\ LastEntry.how = "random"
       /\ Len(heap') = Len(heap) + 1
       /\ LastEntry.ref = Len(heap')
       /\ countBombs(heap'[LastEntry.ref]) = MinOf(args.bombs, args.rows * args.cols - 1)
       /\ ~heap'[LastEntry.ref].cells[args.safe].isBomb
       /\ parentBoard' \in {Null, LastEntry.ref}
       /\ parentBoard' # parentBoard
       /\ noImproveCount' =
            (IF LastEntry.scored /\ ~LastEntry.solved /\ parentBoard' = Null THEN 1 ELSE 0)]_vars

\* The parent was discarded in the last pass and the candidate has a bomb next
\* to the safe cell, which no mutation of that parent could have.
C22_Witness ==
  /\ log # <<>>
  /\ log[Len(log)].discarded
  /\ log[Len(log)].how = "random"
  /\ ~log[Len(log)].scored
  /\ heap[log[Len(log)].ref].cells[args.safe].adjacentBombCount > 0
  /\ bestBoard # Null
  /\ parentBoard = Null
  /\ noImproveCount = 0

\* The entries of the log whose candidate has a nonzero count at the safe cell.
NonZeroAnchorEntries ==
  {i \in 1 .. Len(log) : heap[log[i].ref].cells[args.safe].adjacentBombCount # 0}

\* C23 (rejection): a candidate whose safe cell has adjacentBombCount # 0 is
\* not scored and is never bestBoard, parentBoard, lastSafeBoard or the solved
\* board; the pass that produced it records it as lastBoard and leaves
\* bestScore, bestBoard and lastSafeBoard as they were, and the parent and
\* the non-improvement counter as the patience test of that pass left them.
C23_RejectedOnlyLast ==
  /\ [](\A i \in NonZeroAnchorEntries :
          /\ ~log[i].scored
          /\ ~log[i].solved
          /\ log[i].ref \notin {bestBoard, parentBoard, lastSafeBoard, solvedBoard})
  /\ [][(PassMade /\ heap'[LastEntry.ref].cells[args.safe].adjacentBombCount # 0) =>
          /\ lastBoard' = LastEntry.ref
          /\ bestScore' = bestScore
          /\ bestBoard' = bestBoard
          /\ lastSafeBoard' = lastSafeBoard
          /\ solvedBoard' = solvedBoard
          /\ pc' = "loop"
          /\ IF parentBoard # Null /\ noImproveCount >= args.mutationPatience
             THEN parentBoard' = Null /\ noImproveCount' = 0
             ELSE parentBoard' = parentBoard /\ noImproveCount' = noImproveCount]_vars

\* With a parent kept and a counter above 0, the candidate of the last pass
\* was rejected: it is lastBoard and nothing else.
C23_Witness ==
  /\ log # <<>>
  /\ Len(log) \in NonZeroAnchorEntries
  /\ lastBoard = log[Len(log)].ref
  /\ ~log[Len(log)].discarded
  /\ parentBoard # Null
  /\ bestBoard # Null
  /\ lastSafeBoard \notin {Null, lastBoard}
  /\ noImproveCount >= 1

\* C24 (swap count): the number of swaps n is at least 1 and is
\* max(1, ceil(x / 100)) for x = bombs * max(0, mutationSwapPercent): n is no
\* less than x / 100, and if n exceeds 1 then n - 1 is less than x / 100.
C24_SwapCount ==
  call.op = "swapCount" =>
    LET percent == IF args.mutationSwapPercent > 0 THEN args.mutationSwapPercent ELSE 0
        x == args.bombs * percent
        n == call.result
    IN  /\ n >= 1
        /\ n * 100 >= x
        /\ n > 1 => (n - 1) * 100 < x
        /\ (args.bombs = 0 \/ args.mutationSwapPercent <= 0) => n = 1

\* A quotient that is no whole number was rounded up to three or more swaps.
C24_Witness ==
  /\ call.op = "swapCount"
  /\ call.result >= 3
  /\ (args.bombs * args.mutationSwapPercent) % 100 # 0
  /\ (call.result - 1) * 100 < args.bombs * args.mutationSwapPercent

\* ---- helper of C25
AnchorCount(board, safe) == Cardinality(BombNeighbours(board, safe))

\* C25 (mutation keeps the opening): a child returned by mutateBoard from a
\* parent whose safe cell has adjacentBombCount 0 has adjacentBombCount 0 at
\* the safe cell, and no bomb around it; so the candidate expression of the
\* search, when it yields the mutated child of such a parent, yields a board
\* the zero-adjacency check lets through.
C25_ChildKeepsZero ==
  /\ (call.op = "mutateBoard" /\ call.ref # Null
        /\ call.before[call.parent].cells[args.safe].adjacentBombCount = 0) =>
       /\ heap[call.ref].cells[args.safe].adjacentBombCount = 0
       /\ AnchorCount(heap[call.ref], args.safe) = 0
  /\ (call.op = "candidate" /\ call.how = "mutated"
        /\ call.before[call.parent].cells[args.safe].adjacentBombCount = 0) =>
       /\ heap[call.ref].cells[args.safe].adjacentBombCount = 0
       /\ AnchorCount(heap[call.ref], args.safe) = 0

\* C25 in the search: a pass whose candidate is a mutated child had a parent
\* with count 0 at the safe cell, and the child is scored, not rejected.
C25_MutatedNeverRejected ==
  [][(PassMade /\ LastEntry.how = "mutated") =>
       /\ parentBoard # Null
       /\ heap[parentBoard].cells[args.safe].adjacentBombCount = 0
       /\ heap'[LastEntry.ref].cells[args.safe].adjacentBombCount = 0
       /\ LastEntry.scored]_vars

\* Two swaps on a 3x3 parent with an open safe corner gave a child with
\* another layout and the corner still open.
C25_Witness ==
  /\ call.op = "mutateBoard"
  /\ call.ref # Null
  /\ call.swapCount = 2
  /\ args.rows = 3
  /\ heap[call.parent].cells[args.safe].adjacentBombCount = 0
  /\ heap[call.ref].cells[args.safe].adjacentBombCount = 0
  /\ BombsOf(heap[call.ref]) # BombsOf(heap[call.parent])

\* ---- helpers of C26: what one revealed cell sees, counted by distance
\* in the solver's matrices as they are before the round.
UnknownNear(p) ==
  {q \in DOMAIN sv.input.cells : Chebyshev1(p, q) /\ ~sv.st.revealed[q] /\ ~sv.st.flagged[q]}
FlagsNear(p) ==
  Cardinality({q \in DOMAIN sv.input.cells : Chebyshev1(p, q) /\ sv.st.flagged[q]})
Frontier == {p \in DOMAIN sv.input.cells : sv.st.revealed[p] /\ UnknownNear(p) # {}}
BasicRuleFires(p) ==
  \/ sv.input.cells[p].adjacentBombCount = FlagsNear(p)
  \/ sv.input.cells[p].adjacentBombCount = FlagsNear(p) + Cardinality(UnknownNear(p))
RoundMade == sv.pc = "rounds" /\ sv'.pc = "rounds" /\ sv'.rounds = sv.rounds + 1

\* C26 (subset gating): in a deduction round the subset rule is applied
\* exactly if neither basic rule fires for any revealed cell with an unknown
\* neighbour (so nothing was queued) and at least two constraints were
\* recorded; the constraints recorded are one per revealed cell with at least
\* one unknown neighbour and adjacentBombCount - flags >= 0, holding that
\* cell's unknown neighbours and that difference.
C26_SubsetGating ==
  [][RoundMade =>
       LET recorded == sv'.acts.constraints
           eligible == {p \in Frontier : sv.input.cells[p].adjacentBombCount - FlagsNear(p) >= 0}
       IN  /\ sv'.acts.usedSubset <=>
                ((\A p \in Frontier : ~BasicRuleFires(p)) /\ Len(recorded) >= 2)
           /\ sv'.acts.usedSubset =>
                \A p \in Frontier : UnknownNear(p) \cap
                  (SeqToSet(ScanBoard(sv.st.board, sv.st.revealed, sv.st.flagged).toReveal)
                     \cup SeqToSet(ScanBoard(sv.st.board, sv.st.revealed, sv.st.flagged).toFlag)) = {}
           /\ Len(recorded) = Cardinality(eligible)
           /\ {<<SeqToSet(recorded[i].unknowns), recorded[i].remaining>> : i \in 1 .. Len(recorded)}
                = {<<UnknownNear(p), sv.input.cells[p].adjacentBombCount - FlagsNear(p)>> :
                     p \in eligible}
           /\ \A i \in 1 .. Len(recorded) :
                /\ recorded[i].remaining >= 0
                /\ Len(recorded[i].unknowns) >= 1
                /\ Len(recorded[i].unknowns) = Cardinality(SeqToSet(recorded[i].unknowns))]_vars

\* The last round applied the subset rule to three or more constraints, the
\* basic rules having queued nothing, and a cell is flagged after it.
C26_Witness ==
  /\ sv.pc = "rounds"
  /\ sv.acts.usedSubset
  /\ Len(sv.acts.constraints) >= 3
  /\ sv.st.progress
  /\ sv.st.flaggedCount >= 1

\* ---- helpers of C27: the ordered pairs of constraints of the last call
\* whose first unknown set is a strict subset of the second.
UnknownSet(i) == SeqToSet(call.constraints[i].unknowns)
StrictPairs ==
  {pair \in (1 .. Len(call.constraints)) \X (1 .. Len(call.constraints)) :
     /\ UnknownSet(pair[1]) \subseteq UnknownSet(pair[2])
     /\ UnknownSet(pair[1]) # UnknownSet(pair[2])}
DiffOf(pair) == UnknownSet(pair[2]) \ UnknownSet(pair[1])
RemainingDiffOf(pair) ==
  call.constraints[pair[2]].remaining - call.constraints[pair[1]].remaining

\* C27 (subset rule): the cells applySubsetRule reports safe are exactly the
\* cells of diff = B.unknowns \ A.unknowns over the ordered pairs (A, B) with
\* A's unknowns a strict subset of B's and B.remaining - A.remaining = 0, and
\* the cells it reports as bombs exactly those of the pairs with
\* B.remaining - A.remaining = |diff|; every other pair adds nothing, and no
\* cell is listed twice.
C27_SubsetRule ==
  call.op = "applySubsetRule" =>
    /\ SeqToSet(call.result.safe) =
         UNION {DiffOf(pair) : pair \in {q \in StrictPairs : RemainingDiffOf(q) = 0}}
    /\ SeqToSet(call.result.bombs) =
         UNION {DiffOf(pair) :
                  pair \in {q \in StrictPairs : RemainingDiffOf(q) = Cardinality(DiffOf(q))}}
    /\ Len(call.result.safe) = Cardinality(SeqToSet(call.result.safe))
    /\ Len(call.result.bombs) = Cardinality(SeqToSet(call.result.bombs))

\* Of three constraints one pair gave a safe cell, one a bomb, and a third
\* strict-subset pair, with a difference in between, gave nothing.
C27_Witness ==
  /\ call.op = "applySubsetRule"
  /\ Len(call.constraints) = 3
  /\ Len(call.result.safe) = 1
  /\ Len(call.result.bombs) = 1
  /\ \E pair \in StrictPairs :
       /\ RemainingDiffOf(pair) > 0
       /\ RemainingDiffOf(pair) < Cardinality(DiffOf(pair))

\* ---- helpers of C28
MarkedCells(st) ==
  {p \in DOMAIN st.revealed : st.revealed[p]} \cup {p \in DOMAIN st.flagged : st.flagged[p]}

\* C28 (solver termination): runSolver returns on every board; its revealed
\* and flagged sets only grow; a round after which the loop continues has
\* added at least one revealed or flagged cell, a round that changed no cell
\* is the last; and there are at most rows * cols + 1 rounds.
C28_SolverTerminates ==
  /\ <>(sv.pc = "done")
  /\ [](sv.pc \in {"rounds", "done"} => sv.rounds <= sv.input.rows * sv.input.cols + 1)
  /\ [][(sv.pc = "rounds" /\ sv'.pc \in {"rounds", "done"}) =>
          /\ \A p \in DOMAIN sv.input.cells :
               /\ sv.st.revealed[p] => sv'.st.revealed[p]
               /\ sv.st.flagged[p] => sv'.st.flagged[p]
          /\ RoundMade =>
               /\ sv.st.progress
               /\ sv'.st.progress <=>
                    Cardinality(MarkedCells(sv'.st)) > Cardinality(MarkedCells(sv.st))
               /\ ~sv'.st.progress =>
                    (sv'.st.revealed = sv.st.revealed /\ sv'.st.flagged = sv.st.flagged)
          /\ ~sv.st.progress => (sv'.pc = "done" /\ sv'.rounds = sv.rounds)]_vars

\* A run has returned after three rounds that each marked a cell and a last
\* one that marked none.
C28_Witness ==
  /\ sv.pc = "done"
  /\ sv.rounds >= 4
  /\ sv.st.flaggedCount >= 1
  /\ ~sv.st.progress

\* ---- helpers of C29: the region a flood from a cell opens, as a least
\* fixed point: the cell, and the unrevealed non-bomb neighbours of every
\* cell of the region whose count is 0.
RECURSIVE GrowRegion(_, _)
GrowRegion(board, region) ==
  LET more == {q \in DOMAIN board.cells :
                 /\ ~board.cells[q].revealed
                 /\ ~board.cells[q].isBomb
                 /\ \E p \in region : Chebyshev1(p, q) /\ board.cells[p].adjacentBombCount = 0}
  IN  IF more \subseteq region THEN region ELSE GrowRegion(board, region \cup more)
FloodRegion(board, start) ==
  IF board.cells[start].revealed THEN {} ELSE GrowRegion(board, {start})
NewlyRevealed(before, after) ==
  {p \in DOMAIN before.cells : after[p] /\ ~before.cells[p].revealed}

\* C29 (same flood): on a board without flags, for a non-bomb start cell,
\* revealAt and revealCellInternal mark the same cells: the start cell alone
\* if its count is not 0, otherwise the connected region of count-0 cells
\* with the numbered cells on its border, and never a bomb; both report that
\* many cells.
C29_SameFlood ==
  call.op = "flood" =>
    LET bySolver == NewlyRevealed(call.before, call.solver.revealed)
        byLive == NewlyRevealed(call.before, RevealedMatrix(call.live.board))
        region == FloodRegion(call.before, call.start)
    IN  /\ bySolver = byLive
        /\ byLive = SeqToSet(call.live.revealed)
        /\ bySolver = region
        /\ \A p \in region : ~call.before.cells[p].isBomb
        /\ call.solver.added = Cardinality(region)
        /\ Len(call.live.revealed) = Cardinality(region)
        /\ \A p \in DOMAIN call.before.cells :
             call.before.cells[p].revealed =>
               (call.solver.revealed[p] /\ call.live.board.cells[p].revealed)
        /\ (~call.before.cells[call.start].revealed
              /\ call.before.cells[call.start].adjacentBombCount # 0) => region = {call.start}

\* A second flood, started from a cell of count 0 on a board that already had
\* revealed cells, opened several cells next to a bomb.
C29_Witness ==
  /\ call.op = "flood"
  /\ call.before.cells[call.start].adjacentBombCount = 0
  /\ \E p \in DOMAIN call.before.cells : call.before.cells[p].revealed
  /\ Len(call.live.revealed) >= 3
  /\ \E p \in SeqToSet(call.live.revealed) : call.before.cells[p].adjacentBombCount > 0
  /\ Cardinality(BombsOf(call.before)) >= 2

\* ---- helpers of C30
HintPos == <<ret.row, ret.col>>
NoHint == [action |-> "none", revealed |-> <<>>]
MarksOf(board, field) == {p \in DOMAIN board.cells : board.cells[p][field]}

\* C30 (applying a hint): applyHint returns action "none" and changes nothing
\* when the game has not started or the cell is revealed or flagged; on an
\* unrevealed, unflagged bomb it places a flag and returns "flag", or returns
\* "none" and changes nothing when every flag is placed; on an unrevealed,
\* unflagged non-bomb it flood-reveals from the cell and returns "reveal"
\* with the cells revealed; no bomb cell is ever revealed.
C30_ApplyHint ==
  /\ game.hasStarted => MarksOf(game.board, "revealed") \cap BombsOf(game.board) = {}
  /\ ret.op = "applyHint" =>
       LET b == ret.before
           cell == CellBefore
       IN  IF ~b.hasStarted \/ cell.revealed \/ cell.flagged
           THEN ret.result = NoHint /\ game = b
           ELSE IF cell.isBomb /\ b.flagsPlaced >= b.bombCount
           THEN ret.result = NoHint /\ game = b
           ELSE IF cell.isBomb
           THEN /\ ret.result = [action |-> "flag", revealed |-> <<>>]
                /\ MarksOf(game.board, "flagged") = MarksOf(b.board, "flagged") \cup {HintPos}
                /\ MarksOf(game.board, "revealed") = MarksOf(b.board, "revealed")
                /\ game.flagsPlaced = b.flagsPlaced + 1
                /\ Layout(game.board) = Layout(b.board)
                /\ keyFor(ret.row, ret.col) \notin game.edgeCandidates
           ELSE /\ ret.result.action = "reveal"
                /\ HintPos \in SeqToSet(ret.result.revealed)
                /\ MarksOf(game.board, "revealed") =
                     MarksOf(b.board, "revealed") \cup SeqToSet(ret.result.revealed)
                /\ SeqToSet(ret.result.revealed) \cap MarksOf(b.board, "revealed") = {}
                /\ SeqToSet(ret.result.revealed) \cap BombsOf(b.board) = {}
                /\ (cell.adjacentBombCount # 0 => ret.result.revealed = <<HintPos>>)
                /\ MarksOf(game.board, "flagged") = MarksOf(b.board, "flagged")
                /\ game.flagsPlaced = b.flagsPlaced
                /\ Layout(game.board) = Layout(b.board)

\* A hint for a bomb was applied after the last flag had gone on another
\* cell: the limit blocked it and nothing changed.
C30_Witness ==
  /\ ret.op = "applyHint"
  /\ ret.before.hasStarted
  /\ CellBefore.isBomb
  /\ ~CellBefore.flagged
  /\ ret.result.action = "none"
  /\ game.flagsPlaced = game.bombCount
  /\ game = ret.before

\* C31 (default swap percentage): when options.mutationSwapPercent is left
\* out, the swap count is max(1, ceil(bombs * 5 / 100)).
C31_DefaultFivePercent ==
  (call.op = "swapCount" /\ "mutationSwapPercent" \notin DOMAIN call.options) =>
    call.result = MaxOf(1, (args.bombs * 5 + 99) \div 100)

\* C32 (the last resort is never used): every pass through the loop assigns
\* lastBoard, the loop is left only after at least one pass, so the board
\* selected on line 130 is never null, the call returns it, and the
\* selection allocates no board.
C32_LastResortUnused ==
  /\ [](attempts >= 1 => lastBoard # Null /\ lastBoard = log[Len(log)].ref)
  /\ [](pc \in {"select", "done"} =>
          /\ attempts >= 1
          /\ SelectedBoard(solvedBoard, bestBoard, lastSafeBoard, lastBoard) # Null)
  /\ [](pc = "done" =>
          returned = SelectedBoard(solvedBoard, bestBoard, lastSafeBoard, lastBoard))
  /\ [][pc = "select" => heap' = heap /\ returned' \in 1 .. Len(heap)]_vars

\* A call with no time at all has returned: it made one pass, whose
\* candidate was rejected, and returned that candidate.
C32_Witness ==
  /\ pc = "done"
  /\ args.timeBudgetMs = 0
  /\ attempts = 1
  /\ selection = "last"
  /\ returned = lastBoard
  /\ Len(heap) = 1

\* C33 (the "safe" selection is never made): bestScore starts at -1 and every
\* score is at least 0, so the first candidate that passes the zero-count
\* test either solves the board or becomes the best board: whenever
\* lastSafeBoard is non-null, solvedBoard or bestBoard is non-null too, and
\* the board returned is selected as "solved", "best" or "last".
C33_SafeNeverSelected ==
  /\ \A i \in DOMAIN log : log[i].scored => log[i].score >= 0
  /\ bestScore >= -1
  /\ (bestBoard = Null) = (bestScore = -1)
  /\ lastSafeBoard # Null => (solvedBoard # Null \/ bestBoard # Null)
  /\ pc \in {"select", "done"} => SelectionName \in {"solved", "best", "last"}
  /\ pc = "done" =>
       /\ selection \in {"solved", "best", "last"}
       /\ selection = "last" => (lastSafeBoard = Null /\ returned = lastBoard)

\* A call has returned its best board while a later candidate, which did
\* not improve on it, was the last to pass the zero-count test.
C33_Witness ==
  /\ pc = "done"
  /\ selection = "best"
  /\ lastSafeBoard # Null
  /\ lastSafeBoard # bestBoard
  /\ returned = bestBoard

\* ---- helpers of C34
\* The scores of the candidates that were scored and did not end the loop.
UnsolvedScores(entries) ==
  {entries[i].score : i \in {j \in DOMAIN entries : entries[j].scored /\ ~entries[j].solved}}
BeatsAll(score, scores) == \A s \in scores : score > s

\* C34 (the best of the whole call): bestScore never decreases and a
\* patience restart does not reset it: it is always the highest score of the
\* candidates scored so far (-1 when there is none) and bestBoard the first
\* candidate that reached it; parentBoard, when non-null, is bestBoard; a
\* pass that runs without a parent takes a fresh random board, and a random
\* board becomes the parent only by scoring strictly higher than every
\* candidate scored before it in the call.
C34_BestOfWholeCall ==
  /\ [](parentBoard # Null => parentBoard = bestBoard)
  /\ [](bestScore >= -1 /\ \A s \in UnsolvedScores(log) : bestScore >= s)
  /\ [](bestBoard # Null =>
          \E i \in DOMAIN log : /\ log[i].ref = bestBoard
                                /\ log[i].scored /\ ~log[i].solved
                                /\ log[i].score = bestScore
                                /\ BeatsAll(bestScore, UnsolvedScores(SubSeq(log, 1, i - 1))))
  /\ [][bestScore' >= bestScore]_vars
  /\ [][(PassMade /\ LastEntry.discarded) =>
          /\ bestScore' >= bestScore
          /\ (bestScore' = bestScore => bestBoard' = bestBoard /\ parentBoard' = Null)
          /\ (bestScore' > bestScore => bestBoard' = LastEntry.ref)]_vars
  /\ [][(PassMade /\ (parentBoard = Null \/ LastEntry.discarded)) =>
          /\ LastEntry.how = "random"
          /\ (parentBoard' # Null) =
               (/\ LastEntry.scored /\ ~LastEntry.solved
                /\ BeatsAll(LastEntry.score, UnsolvedScores(log)))
          /\ parentBoard' # Null => parentBoard' = LastEntry.ref]_vars
  /\ [][(PassMade /\ LastEntry.how # "random") =>
          parentBoard # Null /\ ~LastEntry.discarded]_vars

\* The parent was discarded and the fresh board of that pass did not beat the
\* best score; the next pass ran without a parent, and its random board,
\* scoring higher than every candidate before it, is the parent again.
C34_Witness ==
  /\ Len(log) = 3
  /\ log[2].discarded
  /\ log[2].scored
  /\ log[2].score <= log[1].score
  /\ ~log[3].discarded
  /\ log[3].how = "random"
  /\ log[3].score > log[1].score
  /\ parentBoard = log[3].ref
  /\ bestBoard = parentBoard
  /\ noImproveCount = 0

\* ---- helpers of C35
RemainingNear(p) == sv.input.cells[p].adjacentBombCount - FlagsNear(p)
FrontierPairs ==
  {pair \in Frontier \X Frontier :
     /\ UnknownNear(pair[1]) \subseteq UnknownNear(pair[2])
     /\ UnknownNear(pair[1]) # UnknownNear(pair[2])}
SubsetRuleFires(pair) ==
  LET remainingDiff == RemainingNear(pair[2]) - RemainingNear(pair[1])
      diff == UnknownNear(pair[2]) \ UnknownNear(pair[1])
  IN  remainingDiff = 0 \/ remainingDiff = Cardinality(diff)

\* C35 (fixed point): when runSolver returns, no revealed cell with an unknown
\* neighbour has adjacentBombCount equal to its flagged neighbours or to its
\* flagged plus its unknown neighbours, and no two such cells, the unknown
\* neighbours of one a strict subset of the other's, differ in their
\* remaining counts by 0 or by the number of cells in the difference.
C35_FixedPoint ==
  sv.pc = "done" =>
    /\ \A p \in Frontier : ~BasicRuleFires(p)
    /\ \A p \in Frontier : RemainingNear(p) >= 0
    /\ \A pair \in FrontierPairs : ~SubsetRuleFires(pair)

\* The solver has returned from an unsolved board: its last round applied the
\* subset rule to constraints with a strict-subset pair among them, and the
\* pair decided nothing.
C35_Witness ==
  /\ sv.pc = "done"
  /\ ~sv.result.solved
  /\ sv.acts.usedSubset
  /\ Len(sv.acts.constraints) >= 3
  /\ FrontierPairs # {}

\* C36 (marks of the manager's board): in every state of a game driven by
\* reset, toggleFlag, reveal and applyHint, no bomb cell is revealed and no
\* cell is both revealed and flagged.
C36_NoRevealedBombOrFlag ==
  \A p \in DOMAIN game.board.cells :
    game.board.cells[p].revealed =>
      /\ ~game.board.cells[p].isBomb
      /\ ~game.board.cells[p].flagged

\* A flood has passed by a flagged cell that is no bomb: an empty cell is
\* revealed, a neighbour of it carries a flag and stays unrevealed, and the
\* bomb is not flagged.
C36_Witness ==
  /\ game.hasStarted
  /\ pc = "idle"
  /\ \E p \in DOMAIN game.board.cells :
       \E q \in DOMAIN game.board.cells :
         /\ Chebyshev1(p, q)
         /\ game.board.cells[p].revealed
         /\ game.board.cells[p].adjacentBombCount = 0
         /\ game.board.cells[q].flagged
         /\ ~game.board.cells[q].isBomb
         /\ ~game.board.cells[q].revealed
  /\ Cardinality(MarksOf(game.board, "revealed")) >= 3
  /\ MarksOf(game.board, "flagged") \cap BombsOf(game.board) = {}

\* C37 (flag counter): in every state of a game driven by reset, toggleFlag,
\* reveal and applyHint, flagsPlaced is the number of flagged cells of the
\* current board; the first reveal, which replaces the empty board by the
\* generated one, carries every flag over to the same cell.
C37_FlagsPlacedCounts ==
  /\ game.flagsPlaced = Cardinality(MarksOf(game.board, "flagged"))
  /\ (ret.op = "reveal" /\ ret.first /\ ~ret.pending) =>
       /\ MarksOf(game.board, "flagged") = MarksOf(ret.before.board, "flagged")
       /\ game.flagsPlaced = ret.before.flagsPlaced
  /\ ret.op = "reset" => game.flagsPlaced = 0

\* The first reveal has just finished in a game where two flags had been
\* placed on the empty board: both are on the generated board, one of them
\* on a cell that is no bomb, and the reveal has opened cells.
C37_Witness ==
  /\ ret.op = "reveal"
  /\ ret.first
  /\ ~ret.pending
  /\ ~ret.before.hasStarted
  /\ ret.before.flagsPlaced = 2
  /\ game.flagsPlaced = 2
  /\ MarksOf(game.board, "flagged") \ BombsOf(game.board) # {}
  /\ MarksOf(game.board, "revealed") # {}

\* C38 (complete means correct): in every state of a game created with
\* 0 <= bombCount < rows * cols and driven by reset, toggleFlag, reveal and
\* applyHint, getCompletionStatus reports complete only together with
\* correct: the game has started, the flagged cells are the bombs and the
\* revealed cells are all the others.
C38_CompleteIsCorrect ==
  /\ game.bombCount >= 0
  /\ game.bombCount < game.rows * game.cols
  /\ getCompletionStatus(game).complete =>
       /\ getCompletionStatus(game).correct
       /\ game.hasStarted
       /\ MarksOf(game.board, "flagged") = BombsOf(game.board)
       /\ MarksOf(game.board, "revealed") = DOMAIN game.board.cells \ BombsOf(game.board)

\* A game with two bombs has just been completed by a reveal: both bombs
\* are flagged and the second of the two other cells has been revealed.
C38_Witness ==
  /\ getCompletionStatus(game).complete
  /\ game.bombCount = 2
  /\ game.flagsPlaced = 2
  /\ ret.op = "reveal"
  /\ ~ret.pending
  /\ Cardinality(MarksOf(ret.before.board, "revealed")) = 1
  /\ Cardinality(MarksOf(game.board, "revealed")) = 2

\* ---- helpers of C39
HintRequested == Len(app'.timers) = Len(app.timers) + 1
HintFired == Len(app'.timers) = Len(app.timers) - 1

\* C39 (the hint callback and restart): the callback of a hint holds the
\* manager that was current when the hint was requested and applies the hint
\* to it; when the player has restarted in the meantime, the callback leaves
\* the App's current manager, if there is one, exactly as it was: it flags
\* and reveals nothing on the new game's board.
C39_HintKeepsItsGame ==
  /\ [](\A i \in DOMAIN app.timers :
          /\ app.timers[i].target \in 1 .. app.created
          /\ app.timers[i].target # app.game => app.timers[i].target \in DOMAIN app.detached)
  /\ [][HintRequested =>
          /\ app'.timers[Len(app'.timers)].target = app.game
          /\ app.game # Null
          /\ game.hasStarted]_vars
  /\ [][(HintFired /\ Head(app.timers).target # app.game) =>
          /\ game' = game
          /\ app'.game = app.game
          /\ ret'.held
          /\ ret'.before = app.detached[Head(app.timers).target]]_vars
  /\ [][(HintFired /\ Head(app.timers).target = app.game) =>
          /\ ~ret'.held
          /\ ret'.before = game
          /\ MarksOf(game'.board, "revealed") \cup MarksOf(game'.board, "flagged")
               = MarksOf(game.board, "revealed") \cup MarksOf(game.board, "flagged")
                   \cup (IF ret'.result.action = "flag"
                         THEN {<<ret'.row, ret'.col>>}
                         ELSE SeqToSet(ret'.result.revealed))]_vars

\* A hint requested in the first game has just been applied, to the first
\* game's manager, after a restart and the first reveal of the second game;
\* on the second game's board the hinted cell is neither revealed nor
\* flagged, and it stays so.
C39_Witness ==
  /\ ret.op = "applyHint"
  /\ ret.held
  /\ ret.result.action # "none"
  /\ app.game = 2
  /\ game.hasStarted
  /\ ~game.board.cells[<<ret.row, ret.col>>].revealed
  /\ ~game.board.cells[<<ret.row, ret.col>>].flagged
  /\ IsHintable(game.board.cells[<<ret.row, ret.col>>])
====
